---- MODULE Spec2Model ----
(***************************************************************************)
(* Message store, range / thread queries and the thread grouping engine of *)
(* the slack topic document generator.                                     *)
(*                                                                         *)
(* The store is the `messages` table (packages/db/index.ts); the queries   *)
(* are those of packages/db/messageQueries.ts; getFilteredMessages,        *)
(* getFilteredMessagesGrouped and groupMessagesByThreads are those of the  *)
(* message retriever (unnamed/part_018).                                   *)
(*                                                                         *)
(* Also modelled: the validation of user references and command arguments  *)
(* (unnamed/part_015, src/agent/index.ts), withRetry and its wrapper       *)
(* (packages/core/utils/retry.ts), migrateDatabase                         *)
(* (packages/db/migrate.ts), the rendering of grouped messages as markdown *)
(* (src/agent/index.ts), the routes of the HTTP server (unnamed/part_017)  *)
(* and the paging of fetchChannelMessages                                  *)
(* (packages/repository/messagesFetcher.ts), each under a specification of *)
(* its own.                                                                *)
(***************************************************************************)
EXTENDS Integers, Sequences, FiniteSets, TLC

VARIABLES db, nextId, out, argv, result, retry, sqlite, migration, http, fetcher

vars == <<db, nextId, out, argv, result, retry, sqlite, migration, http, fetcher>>

\* the store and the result of the last call on it
storeVars == <<db, nextId, out>>

\* the argument and the result of the last validation or parsing call
cliVars == <<argv, result>>

\* the state of a function wrapped by createRetryWrapper
retryVars == <<retry>>

\* the database file migrateDatabase works on and the outcome of its last call
migrationVars == <<sqlite, migration>>

\* the last request to the HTTP server with its response, and the state of a call
\* of fetchChannelMessages
netVars == <<http, fetcher>>

(***************************************************************************)
(* Bounds and value domains                                                *)
(***************************************************************************)
\* number of rows saveMessages may insert in one behaviour (AUTOINCREMENT ids 1..MaxSaves)
MaxSaves == 3

\* channel ids the crawler is configured with
Channels == {"C1", "C2"}

\* platform timestamps (ticks); a message's ts
TsValues == {19, 20}

\* SQL NULL / JS undefined in the thread_id column
NoThread == 0

\* thread_ts values a crawled message may carry: none, the thread started at ts 19,
\* and a thread whose starter (ts 21) was never crawled
ThreadIds == {NoThread, 19, 21}

\* user ids of the workspace
Users == {"U1", "U2"}

\* the author of the platform message at (channel, ts)
SenderOf(c, t) == IF (c = "C1") = (t = 19) THEN "U1" ELSE "U2"

\* users.info of a user id: real_name || name, which crawlMentions copies into the
\* user_name of the messages it saves
UserNameOf(u) == IF u = "U1" THEN "Uma" ELSE "bob"

\* the user ids the text of the platform message at (channel, ts) mentions as <@ID>
MentionedIn(c, t) == IF t = 19 THEN {} ELSE {SenderOf(c, 19)}

\* platform ticks per millisecond: slackTsToISODate keeps whole milliseconds
TicksPerMs == 2

(***************************************************************************)
(* Strings                                                                 *)
(***************************************************************************)
\* the strings of the model as their sequences of characters
Spelling ==
  [s \in {"U1", "U2", "Uma", "@Uma", "bob", "@bob"} |->
     CASE s = "U1" -> <<"U", "1">>
       [] s = "U2" -> <<"U", "2">>
       [] s = "Uma" -> <<"U", "m", "a">>
       [] s = "@Uma" -> <<"@", "U", "m", "a">>
       [] s = "bob" -> <<"b", "o", "b">>
       [] s = "@bob" -> <<"@", "b", "o", "b">>]

\* String.prototype.startsWith with a one-character search string
startsWith(s, ch) == Len(Spelling[s]) >= 1 /\ Spelling[s][1] = ch

\* String.prototype.slice(1)
slice1(s) == CHOOSE t \in DOMAIN Spelling : Spelling[t] = Tail(Spelling[s])

\* the characters of the identity references: ASCII letters, a letter outside ASCII
\* (written e_acute), a digit, the punctuation of names and of <@ID>, white space
\* and another character
MentionChars == {"U", "a", "e_acute", "1", "_", ".", "-", "@", "<", ">", " ", "!"}

\* [UWS]
Sigils == {"U", "W", "S"}

\* \w: [A-Za-z0-9_]
WordChars == {"U", "W", "S", "a", "1", "_"}

\* [\p{L}\p{N}._-] under the u flag
NameChars == {"U", "W", "S", "a", "e_acute", "1", ".", "_", "-"}

\* the characters String.prototype.trim removes
WhiteSpace == {" "}

RECURSIVE trimStart(_)
trimStart(s) == IF s # <<>> /\ Head(s) \in WhiteSpace THEN trimStart(Tail(s)) ELSE s

RECURSIVE trimEnd(_)
trimEnd(s) ==
  IF s # <<>> /\ s[Len(s)] \in WhiteSpace THEN trimEnd(SubSeq(s, 1, Len(s) - 1)) ELSE s

\* String.prototype.trim
trim(s) == trimEnd(trimStart(s))

\* variant of MatchesName: the name is matched with [\w.-], ASCII only
MatchesName_Ascii(s) ==
  LET body == IF s # <<>> /\ Head(s) = "@" THEN Tail(s) ELSE s
  IN Len(body) >= 1 /\ \A i \in 1..Len(body) : body[i] \in WordChars \cup {".", "-"}

\* ^@?[\p{L}\p{N}._-]+$
MatchesName(s) ==
  LET body == IF s # <<>> /\ Head(s) = "@" THEN Tail(s) ELSE s
  IN Len(body) >= 1 /\ \A i \in 1..Len(body) : body[i] \in NameChars

\* ^<@[UWS][\w]+>$
MatchesBracketedId(s) ==
  /\ Len(s) >= 5
  /\ s[1] = "<" /\ s[2] = "@" /\ s[3] \in Sigils /\ s[Len(s)] = ">"
  /\ \A i \in 4..Len(s) - 1 : s[i] \in WordChars

\* ^[UWS][\w]+$
MatchesBareId(s) ==
  /\ Len(s) >= 2
  /\ s[1] \in Sigils
  /\ \A i \in 2..Len(s) : s[i] \in WordChars

\* validMentionPattern.test
validMentionPattern(s) == MatchesName(s) \/ MatchesBracketedId(s) \/ MatchesBareId(s)

\* validateUserMention: isValid and, when invalid, the parts of the error text
validateUserMention(mention) ==
  IF mention = <<>> \/ Len(trim(mention)) = 0
  THEN [isValid |-> FALSE, error |-> <<"User mention cannot be empty">>]
  ELSE LET trimmedMention == trim(mention)
       IN IF ~validMentionPattern(trimmedMention)
          THEN [isValid |-> FALSE,
                error |-> <<"Invalid user mention format: ", trimmedMention,
                            ". Expected formats: @username, username, <@U123456>, or U123456">>]
          ELSE [isValid |-> TRUE, error |-> <<>>]

(***************************************************************************)
(* Dates and their ISO strings                                             *)
(***************************************************************************)
\* Date.prototype.toISOString: fixed-width, zero-padded decimal fields
toISOString(t) == <<t \div 10, t % 10>>

\* new Date(isoString).getTime()
DateParse(s) == s[1] * 10 + s[2]

\* SQLite's TEXT comparison a <= b (memcmp on equal-width strings)
TextLeq(a, b) == \/ a[1] < b[1]
                 \/ a[1] = b[1] /\ a[2] <= b[2]

\* slackTsToISODate: parseFloat(ts) * 1000, truncated to whole ms by Date
slackTsToISODate(ts) == toISOString(ts \div TicksPerMs)

\* an Invalid Date (getTime() is NaN)
InvalidDate == -1

\* instants (ms) a filter bound of the document generator may take: the instants of
\* the crawled messages
Instants == {9, 10}

\* Date values a caller of the store queries may pass as startDate / endDate: also
\* instants before and after every message, and an Invalid Date
Dates == {8, 9, 10, 11, InvalidDate}

\* the value of a decimal digit
DigitValue(c) ==
  CASE c = "0" -> 0 [] c = "1" -> 1 [] c = "2" -> 2 [] c = "3" -> 3 [] c = "4" -> 4
    [] c = "5" -> 5 [] c = "6" -> 6 [] c = "7" -> 7 [] c = "8" -> 8 [] c = "9" -> 9

\* \d
DigitChars == {"0", "1", "2", "3", "4", "5", "6", "7", "8", "9"}

\* the number a string of digits writes
RECURSIVE NumberOf(_)
NumberOf(s) ==
  IF s = <<>> THEN 0 ELSE NumberOf(SubSeq(s, 1, Len(s) - 1)) * 10 + DigitValue(s[Len(s)])

\* /^\d{4}-\d{2}-\d{2}$/.test
dateRegex(dateStr) ==
  /\ Len(dateStr) = 10
  /\ dateStr[5] = "-" /\ dateStr[8] = "-"
  /\ \A i \in {1, 2, 3, 4, 6, 7, 9, 10} : dateStr[i] \in DigitChars

\* new Date(dateStr + "T00:00:00.000Z") of a string the regex accepted: an Invalid
\* Date for a month outside 01..12 or a day outside 01..31, else the day count
\* (days beyond a month's end roll over or are invalid by engine; not used here)
DateOfString(dateStr) ==
  LET year == NumberOf(SubSeq(dateStr, 1, 4))
      month == NumberOf(SubSeq(dateStr, 6, 7))
      day == NumberOf(SubSeq(dateStr, 9, 10))
  IN IF month \in 1..12 /\ day \in 1..31
     THEN (year * 12 + (month - 1)) * 31 + (day - 1)
     ELSE InvalidDate

\* validateDateString: the parts of the error text, <<>> when valid
validateDateString(dateStr, paramName) ==
  IF ~dateRegex(dateStr)
  THEN <<"Invalid ", paramName, " format: ", dateStr, ". Expected format: YYYY-MM-DD">>
  ELSE IF DateOfString(dateStr) = InvalidDate
  THEN <<"Invalid ", paramName, ": ", dateStr, ". Please use a valid date in YYYY-MM-DD format">>
  ELSE <<>>

\* no GenerateCommandArgs object
NoArgs == [startDate |-> InvalidDate, endDate |-> InvalidDate,
           hasUserMentions |-> FALSE, userMentions |-> <<>>]

\* variant of FirstInvalidMention: only the first reference is validated
FirstInvalidMention_OnlyFirst(userMentions) ==
  IF Len(userMentions) >= 1 /\ ~validateUserMention(userMentions[1]).isValid THEN 1 ELSE 0

\* the loop over userMentions: the index of the first reference that
\* validateUserMention rejects, 0 when there is none
FirstInvalidMention(userMentions) ==
  IF \E i \in 1..Len(userMentions) : ~validateUserMention(userMentions[i]).isValid
  THEN CHOOSE i \in 1..Len(userMentions) :
         /\ ~validateUserMention(userMentions[i]).isValid
         /\ \A j \in 1..i - 1 : validateUserMention(userMentions[j]).isValid
  ELSE 0

\* parseCommandArgs: the parts of the thrown error (<<>> when it returns) and the
\* returned object
parseCommandArgs(args) ==
  IF Len(args) < 2 THEN [error |-> <<"Missing required parameters">>, value |-> NoArgs]
  ELSE IF validateDateString(args[1], "start date") # <<>>
  THEN [error |-> validateDateString(args[1], "start date"), value |-> NoArgs]
  ELSE IF validateDateString(args[2], "end date") # <<>>
  THEN [error |-> validateDateString(args[2], "end date"), value |-> NoArgs]
  ELSE LET startDate == DateOfString(args[1])
           endDate == DateOfString(args[2])
           userMentions == SubSeq(args, 3, Len(args))
           bad == FirstInvalidMention(userMentions)
       IN IF startDate > endDate
          THEN [error |-> <<"Start date (", args[1], ") must be before or equal to end date (",
                            args[2], ")">>,
                value |-> NoArgs]
          ELSE IF bad # 0
          THEN [error |-> <<"Invalid user mention ", userMentions[bad], ": ">>
                            \o validateUserMention(userMentions[bad]).error,
                value |-> NoArgs]
          ELSE [error |-> <<>>,
                value |-> [startDate |-> startDate, endDate |-> endDate,
                           hasUserMentions |-> Len(args) > 2,
                           userMentions |-> [i \in 1..Len(userMentions) |-> trim(userMentions[i])]]]

(***************************************************************************)
(* Sequence helpers                                                        *)
(***************************************************************************)
Range(s) == {s[i] : i \in 1..Len(s)}

\* the rows of a set as a sequence in rowid order (a table scan)
RECURSIVE TableScan(_)
TableScan(rows) ==
  IF rows = {} THEN <<>>
  ELSE LET r == CHOOSE x \in rows : \A y \in rows : x.id <= y.id
       IN <<r>> \o TableScan(rows \ {r})

\* comparator (a, b) => new Date(a.created_at).getTime() - new Date(b.created_at).getTime()
CompareCreatedAt(a, b) == DateParse(a.created_at) - DateParse(b.created_at)

\* insert m into a sorted sequence after every element that does not compare greater
RECURSIVE InsertSorted(_, _)
InsertSorted(s, m) ==
  IF s = <<>> THEN <<m>>
  ELSE IF CompareCreatedAt(Head(s), m) > 0 THEN <<m>> \o s
       ELSE <<Head(s)>> \o InsertSorted(Tail(s), m)

\* variant of SortByCreatedAt: the list is left in the order it came in
SortByCreatedAt_Unsorted(s) == s

\* Array.prototype.sort with CompareCreatedAt: a stable ascending sort
RECURSIVE SortByCreatedAt(_)
SortByCreatedAt(s) ==
  IF s = <<>> THEN <<>>
  ELSE InsertSorted(SortByCreatedAt(SubSeq(s, 1, Len(s) - 1)), s[Len(s)])

\* ORDER BY created_at ASC over a table scan: TEXT order, rowid order among equals
RECURSIVE InsertByText(_, _)
InsertByText(s, m) ==
  IF s = <<>> THEN <<m>>
  ELSE IF TextLeq(Head(s).created_at, m.created_at) THEN <<Head(s)>> \o InsertByText(Tail(s), m)
       ELSE <<m>> \o s

RECURSIVE OrderByCreatedAt(_)
OrderByCreatedAt(s) ==
  IF s = <<>> THEN <<>>
  ELSE InsertByText(OrderByCreatedAt(SubSeq(s, 1, Len(s) - 1)), s[Len(s)])

(***************************************************************************)
(* The messages table                                                      *)
(***************************************************************************)
\* a SlackMessage as the crawler builds it (fetchChannelMessages / fetchThreadReplies)
CrawledMessages ==
  {[channel_id |-> c, ts |-> t, thread_id |-> th, created_at |-> slackTsToISODate(t),
    user_id |-> SenderOf(c, t), user_name |-> UserNameOf(SenderOf(c, t)),
    mentions |-> MentionedIn(c, t)] :
     c \in Channels, t \in TsValues, th \in ThreadIds}

\* INSERT OR REPLACE of one message: UNIQUE(channel_id, ts) removes the old row,
\* AUTOINCREMENT gives the new row a fresh id
InsertOrReplace(rows, id, msg) ==
  {r \in rows : ~(r.channel_id = msg.channel_id /\ r.ts = msg.ts)}
    \cup {[id |-> id, channel_id |-> msg.channel_id, ts |-> msg.ts,
            thread_id |-> msg.thread_id, created_at |-> msg.created_at,
            user_id |-> msg.user_id, user_name |-> msg.user_name,
            mentions |-> msg.mentions]}

\* the loop of saveMessages over its messages argument
RECURSIVE SaveAll(_, _, _)
SaveAll(rows, id, msgs) ==
  IF msgs = <<>> THEN rows
  ELSE SaveAll(InsertOrReplace(rows, id, Head(msgs)), id + 1, Tail(msgs))

(***************************************************************************)
(* Queries (messageQueries.ts)                                             *)
(***************************************************************************)
\* variant of validateDateRange: the end date is looked at before the start date
validateDateRange_EndFirst(startDate, endDate) ==
  IF endDate = InvalidDate THEN "Invalid end date"
  ELSE IF startDate = InvalidDate THEN "Invalid start date"
  ELSE IF startDate > endDate THEN "Start date must be before or equal to end date"
  ELSE ""

\* validateDateRange: "" when the range is accepted, else the error message
validateDateRange(startDate, endDate) ==
  IF startDate = InvalidDate THEN "Invalid start date"
  ELSE IF endDate = InvalidDate THEN "Invalid end date"
  ELSE IF startDate > endDate THEN "Start date must be before or equal to end date"
  ELSE ""

\* variant of InRangeText: the end bound is exclusive (created_at < ?)
InRangeText_EndExclusive(row, startDate, endDate) ==
  /\ TextLeq(toISOString(startDate), row.created_at)
  /\ TextLeq(row.created_at, toISOString(endDate))
  /\ row.created_at # toISOString(endDate)

\* WHERE created_at >= ? AND created_at <= ?
InRangeText(row, startDate, endDate) ==
  /\ TextLeq(toISOString(startDate), row.created_at)
  /\ TextLeq(row.created_at, toISOString(endDate))

\* getMessagesInTimeRange (after validation)
getMessagesInTimeRange(rows, startDate, endDate) ==
  OrderByCreatedAt(TableScan({r \in rows : InRangeText(r, startDate, endDate)}))

\* getThreadMessages: WHERE thread_id = ? OR (ts = ? AND thread_id IS NULL)
getThreadMessages(rows, parentTs) ==
  OrderByCreatedAt(TableScan({r \in rows :
     \/ r.thread_id = parentTs
     \/ r.ts = parentTs /\ r.thread_id = NoThread}))

\* the condition getMessagesFromUsers builds for one reference: m.user_id = ? when the
\* reference starts with "U", else m.user_name = ? with a leading "@" removed
SenderCondition(r, userContaining) ==
  IF startsWith(userContaining, "U")
  THEN r.user_id = userContaining
  ELSE LET cleanUsername == IF startsWith(userContaining, "@") THEN slice1(userContaining)
                            ELSE userContaining
       IN r.user_name = cleanUsername

\* getMessagesFromUsers: no reference degrades to the range query, else the
\* conditions of the references joined with OR
getMessagesFromUsers(rows, startDate, endDate, userContainings) ==
  IF Len(userContainings) = 0 THEN getMessagesInTimeRange(rows, startDate, endDate)
  ELSE OrderByCreatedAt(TableScan({r \in rows :
         /\ InRangeText(r, startDate, endDate)
         /\ \E i \in 1..Len(userContainings) : SenderCondition(r, userContainings[i])}))

\* getMessagesWithMultipleUserMentions: SELECT DISTINCT over the join with mentions;
\* a bare id matches as men.user_id = ? or as text LIKE '%<@id>%'
getMessagesWithMultipleUserMentions(rows, startDate, endDate, userMentions) ==
  IF Len(userMentions) = 0 THEN getMessagesInTimeRange(rows, startDate, endDate)
  ELSE OrderByCreatedAt(TableScan({r \in rows :
         /\ InRangeText(r, startDate, endDate)
         /\ \E i \in 1..Len(userMentions) : userMentions[i] \in r.mentions}))

(***************************************************************************)
(* The message retriever                                                   *)
(***************************************************************************)
\* variant of BaseMessages: with both lists the sender filter narrows the messages
\* the mention filter selected
BaseMessages_BothFilters(rows, filter) ==
  IF Len(filter.userMentions) > 0
  THEN SelectSeq(getMessagesWithMultipleUserMentions(rows, filter.startDate, filter.endDate,
                                                     filter.userMentions),
                 LAMBDA r : \/ Len(filter.userContainings) = 0
                            \/ \E i \in 1..Len(filter.userContainings) :
                                  SenderCondition(r, filter.userContainings[i]))
  ELSE IF Len(filter.userContainings) > 0
  THEN getMessagesFromUsers(rows, filter.startDate, filter.endDate, filter.userContainings)
  ELSE getMessagesInTimeRange(rows, filter.startDate, filter.endDate)

\* base messages: mention filter, else sender filter, else the plain range
BaseMessages(rows, filter) ==
  IF Len(filter.userMentions) > 0
  THEN getMessagesWithMultipleUserMentions(rows, filter.startDate, filter.endDate, filter.userMentions)
  ELSE IF Len(filter.userContainings) > 0
  THEN getMessagesFromUsers(rows, filter.startDate, filter.endDate, filter.userContainings)
  ELSE getMessagesInTimeRange(rows, filter.startDate, filter.endDate)

\* Set.add on an insertion-ordered Set
SetAdd(keys, k) == IF k \in Range(keys) THEN keys ELSE Append(keys, k)

\* variant of CollectThreadKeys: only the thread_id of a reply is a key, the ts of a
\* base message is not
RECURSIVE CollectThreadKeys_RepliesOnly(_, _)
CollectThreadKeys_RepliesOnly(keys, messages) ==
  IF messages = <<>> THEN keys
  ELSE LET m == Head(messages)
       IN CollectThreadKeys_RepliesOnly(
            IF m.thread_id # NoThread THEN SetAdd(keys, m.thread_id) ELSE keys, Tail(messages))

\* the thread keys collected from the base messages: thread_id when set, then ts
RECURSIVE CollectThreadKeys(_, _)
CollectThreadKeys(keys, messages) ==
  IF messages = <<>> THEN keys
  ELSE LET m == Head(messages)
           k1 == IF m.thread_id # NoThread THEN SetAdd(keys, m.thread_id) ELSE keys
       IN CollectThreadKeys(SetAdd(k1, m.ts), Tail(messages))

\* variant of InWindow: thread members are added whatever their date
InWindow_AnyDate(msg, filter) == TRUE

\* msgDate >= filter.startDate && msgDate <= filter.endDate
InWindow(msg, filter) ==
  /\ DateParse(msg.created_at) >= filter.startDate
  /\ DateParse(msg.created_at) <= filter.endDate

\* push every thread message not yet included (by id) and inside the window
RECURSIVE AddThreadMessages(_, _, _)
AddThreadMessages(allMessages, threadMsgs, filter) ==
  IF threadMsgs = <<>> THEN allMessages
  ELSE LET tm == Head(threadMsgs)
           next == IF /\ ~(\E i \in 1..Len(allMessages) : allMessages[i].id = tm.id)
                      /\ InWindow(tm, filter)
                   THEN Append(allMessages, tm) ELSE allMessages
       IN AddThreadMessages(next, Tail(threadMsgs), filter)

\* the loop over the collected thread keys
RECURSIVE ExpandThreads(_, _, _, _)
ExpandThreads(rows, allMessages, keys, filter) ==
  IF keys = <<>> THEN allMessages
  ELSE ExpandThreads(rows,
                     AddThreadMessages(allMessages, getThreadMessages(rows, Head(keys)), filter),
                     Tail(keys), filter)

\* the messages handed to groupMessagesByThreads
MessagesToGroup(rows, filter) ==
  LET messages == BaseMessages(rows, filter)
  IN IF filter.includeThreads
     THEN ExpandThreads(rows, messages, CollectThreadKeys(<<>>, messages), filter)
     ELSE messages

\* getFilteredMessages (after validation): the expanded list is sorted again
getFilteredMessages(rows, filter) ==
  LET messages == BaseMessages(rows, filter)
  IN IF filter.includeThreads
     THEN SortByCreatedAt(ExpandThreads(rows, messages, CollectThreadKeys(<<>>, messages), filter))
     ELSE messages

(***************************************************************************)
(* groupMessagesByThreads                                                  *)
(***************************************************************************)
\* a Map as the sequence of its entries [key, value] in insertion order
MapHas(map, k) == \E i \in 1..Len(map) : map[i].key = k

MapGet(map, k) == map[CHOOSE i \in 1..Len(map) : map[i].key = k].value

\* Map.set: a known key keeps its position and takes the new value
MapSet(map, k, v) ==
  IF MapHas(map, k)
  THEN [i \in 1..Len(map) |-> IF map[i].key = k THEN [key |-> k, value |-> v] ELSE map[i]]
  ELSE Append(map, [key |-> k, value |-> v])

\* variant of isParentOfThread: thread_id is compared with the row id
isParentOfThread_ById(sortedMessages, message) ==
  \E i \in 1..Len(sortedMessages) : sortedMessages[i].thread_id = message.id

\* sortedMessages.some((msg) => msg.thread_id === message.ts)
isParentOfThread(sortedMessages, message) ==
  \E i \in 1..Len(sortedMessages) : sortedMessages[i].thread_id = message.ts

\* variant of FirstPass: a message without thread_id and without replies starts a
\* thread of its own instead of being standalone
RECURSIVE FirstPass_EveryStarterIsThread(_, _, _)
FirstPass_EveryStarterIsThread(acc, rest, sortedMessages) ==
  IF rest = <<>> THEN acc
  ELSE LET message == Head(rest)
           key == IF message.thread_id # NoThread THEN message.thread_id ELSE message.ts
           old == IF MapHas(acc.threadReplies, key) THEN MapGet(acc.threadReplies, key) ELSE <<>>
           next ==
             IF message.thread_id # NoThread
             THEN [acc EXCEPT !.threadReplies = MapSet(acc.threadReplies, key, Append(old, message))]
             ELSE [acc EXCEPT !.parentMessages = MapSet(acc.parentMessages, key, message),
                              !.threadReplies = MapSet(acc.threadReplies, key, old)]
       IN FirstPass_EveryStarterIsThread(next, Tail(rest), sortedMessages)

\* first pass: replies by thread_id, parents by ts, the rest standalone
RECURSIVE FirstPass(_, _, _)
FirstPass(acc, rest, sortedMessages) ==
  IF rest = <<>> THEN acc
  ELSE LET message == Head(rest)
           next ==
             IF message.thread_id # NoThread
             THEN LET old == IF MapHas(acc.threadReplies, message.thread_id)
                             THEN MapGet(acc.threadReplies, message.thread_id) ELSE <<>>
                  IN [acc EXCEPT !.threadReplies =
                        MapSet(acc.threadReplies, message.thread_id, Append(old, message))]
             ELSE IF isParentOfThread(sortedMessages, message)
             THEN [acc EXCEPT !.parentMessages = MapSet(acc.parentMessages, message.ts, message)]
             ELSE [acc EXCEPT !.standaloneMessages = Append(acc.standaloneMessages, message)]
       IN FirstPass(next, Tail(rest), sortedMessages)

\* variant of MakeThread: the promoted reply also stays in the replies
MakeThread_KeepsFirstReply(threadId, replies, parentMessages) ==
  IF MapHas(parentMessages, threadId)
  THEN [parentMessage |-> MapGet(parentMessages, threadId),
        replies |-> SortByCreatedAt(replies),
        threadId |-> threadId,
        messageCount |-> 1 + Len(replies)]
  ELSE LET sortedReplies == SortByCreatedAt(replies)
       IN [parentMessage |-> [sortedReplies[1] EXCEPT !.thread_id = NoThread],
           replies |-> sortedReplies,
           threadId |-> threadId,
           messageCount |-> Len(replies)]

\* variant of MakeThread: a thread under a promoted reply counts 1 + replies.length
\* of the replies before the promotion
MakeThread_CountsPromotedTwice(threadId, replies, parentMessages) ==
  IF MapHas(parentMessages, threadId)
  THEN [parentMessage |-> MapGet(parentMessages, threadId),
        replies |-> SortByCreatedAt(replies),
        threadId |-> threadId,
        messageCount |-> 1 + Len(replies)]
  ELSE LET sortedReplies == SortByCreatedAt(replies)
       IN [parentMessage |-> [sortedReplies[1] EXCEPT !.thread_id = NoThread],
           replies |-> Tail(sortedReplies),
           threadId |-> threadId,
           messageCount |-> 1 + Len(replies)]

\* the thread built for one entry of threadReplies
MakeThread(threadId, replies, parentMessages) ==
  IF MapHas(parentMessages, threadId)
  THEN [parentMessage |-> MapGet(parentMessages, threadId),
        replies |-> SortByCreatedAt(replies),
        threadId |-> threadId,
        messageCount |-> 1 + Len(replies)]
  ELSE LET sortedReplies == SortByCreatedAt(replies)
           firstReply == sortedReplies[1]
           remainingReplies == Tail(sortedReplies)
           pseudoParent == [firstReply EXCEPT !.thread_id = NoThread]
       IN [parentMessage |-> pseudoParent,
           replies |-> remainingReplies,
           threadId |-> threadId,
           messageCount |-> Len(replies)]

\* second pass: one thread per entry of threadReplies, in insertion order
SecondPass(threadReplies, parentMessages) ==
  [i \in 1..Len(threadReplies) |->
     MakeThread(threadReplies[i].key, threadReplies[i].value, parentMessages)]

\* parents without a thread are pushed to the standalone messages
RECURSIVE LeftoverParents(_, _, _)
LeftoverParents(standaloneMessages, parentMessages, threads) ==
  IF parentMessages = <<>> THEN standaloneMessages
  ELSE LET e == Head(parentMessages)
           has == \E i \in 1..Len(threads) : threads[i].threadId = e.key
       IN LeftoverParents(IF has THEN standaloneMessages ELSE Append(standaloneMessages, e.value),
                          Tail(parentMessages), threads)

\* threads.reduce((sum, thread) => sum + thread.messageCount, 0)
RECURSIVE SumMessageCount(_)
SumMessageCount(threads) ==
  IF threads = <<>> THEN 0 ELSE Head(threads).messageCount + SumMessageCount(Tail(threads))

groupMessagesByThreads(messages) ==
  LET sortedMessages == SortByCreatedAt(messages)
      pass1 == FirstPass([threadReplies |-> <<>>, parentMessages |-> <<>>,
                          standaloneMessages |-> <<>>], sortedMessages, sortedMessages)
      threads == SecondPass(pass1.threadReplies, pass1.parentMessages)
      standaloneMessages == LeftoverParents(pass1.standaloneMessages, pass1.parentMessages, threads)
  IN [threads |-> threads,
      standaloneMessages |-> standaloneMessages,
      totalMessageCount |-> SumMessageCount(threads) + Len(standaloneMessages)]

\* the memory at a call of groupMessagesByThreads: the array messages as the
\* references it holds and the objects by reference; the object of an input message
\* is referred to by its row id, an object the call creates by a number below 0
MemoryAtCall(messages) ==
  [messages |-> [i \in 1..Len(messages) |-> messages[i].id],
   objs |-> [ref \in {messages[i].id : i \in 1..Len(messages)} |->
               CHOOSE m \in Range(messages) : m.id = ref],
   parents |-> <<>>]

\* the references of an array in the order of its objects' created_at
SortedRefs(mem, refs) ==
  LET sorted == SortByCreatedAt([i \in 1..Len(refs) |-> mem.objs[refs[i]]])
  IN [i \in 1..Len(sorted) |-> sorted[i].id]

\* variant of SortedCopy: messages.sort(...), which sorts the argument in place
SortedCopy_InPlace(mem) ==
  [sortedMessages |-> SortedRefs(mem, mem.messages),
   mem |-> [mem EXCEPT !.messages = SortedRefs(mem, mem.messages)]]

\* [...messages].sort(...): the sorted array is a new array, messages is not written
SortedCopy(mem) == [sortedMessages |-> SortedRefs(mem, mem.messages), mem |-> mem]

\* variant of PseudoParent: firstReply.thread_id = undefined on the reply itself,
\* which then is the parent
PseudoParent_InPlace(mem, firstReply, ref) ==
  [mem EXCEPT !.objs[firstReply].thread_id = NoThread, !.parents = Append(@, firstReply)]

\* pseudoParent = {...firstReply, thread_id: undefined}: a new object with the
\* fields of firstReply but thread_id; firstReply is not written
PseudoParent(mem, firstReply, ref) ==
  [mem EXCEPT !.objs = [r \in DOMAIN mem.objs \cup {ref} |->
                          IF r = ref THEN [mem.objs[firstReply] EXCEPT !.thread_id = NoThread]
                          ELSE mem.objs[r]],
              !.parents = Append(@, ref)]

\* the second pass in memory: the parent of thread i is the object parentMessages
\* holds, or else a pseudo-parent made from the first reply
RECURSIVE ThreadsInMemory(_, _, _, _)
ThreadsInMemory(mem, atCall, threads, i) ==
  IF i > Len(threads) THEN mem
  ELSE LET parent == threads[i].parentMessage.id
           next == IF atCall.objs[parent].thread_id = NoThread
                   THEN [mem EXCEPT !.parents = Append(@, parent)]
                   ELSE PseudoParent(mem, parent, -i)
       IN ThreadsInMemory(next, atCall, threads, i + 1)

\* the memory when groupMessagesByThreads(messages) returns; the arrays of replies
\* and of standalone messages that it fills and sorts are arrays it created
MemoryAtReturn(messages) ==
  LET atCall == MemoryAtCall(messages)
      sorted == SortedCopy(atCall)
      sortedMessages == [i \in 1..Len(messages) |-> atCall.objs[sorted.sortedMessages[i]]]
  IN ThreadsInMemory(sorted.mem, atCall, groupMessagesByThreads(sortedMessages).threads, 1)

\* getFilteredMessagesGrouped (after validation)
getFilteredMessagesGrouped(rows, filter) == groupMessagesByThreads(MessagesToGroup(rows, filter))

\* the store queries of a filtered retrieval: the base query, then one
\* getThreadMessages per collected thread key
QueriesOfFiltered(rows, filter) ==
  1 + (IF filter.includeThreads
       THEN Len(CollectThreadKeys(<<>>, BaseMessages(rows, filter))) ELSE 0)

(***************************************************************************)
(* groupedMessagesToMarkdown (agent/index.ts)                              *)
(***************************************************************************)
\* formatThread: the heading with the id of the parent, the label chosen by
\* isOriginalParent = !thread.parentMessage.thread_id, the parent and the replies
formatThread(thread) ==
  LET isOriginalParent == thread.parentMessage.thread_id = NoThread
  IN [heading |-> thread.parentMessage.id,
      label |-> IF isOriginalParent THEN "Thread Starter"
                ELSE "Thread (original starter not in results)",
      parent |-> thread.parentMessage.id,
      replies |-> [j \in 1..Len(thread.replies) |-> thread.replies[j].id]]

\* groupedMessagesToMarkdown: the threads first, then the standalone messages
groupedMessagesToMarkdown(groupedMessages) ==
  [threads |-> [i \in 1..Len(groupedMessages.threads) |-> formatThread(groupedMessages.threads[i])],
   standalone |-> [i \in 1..Len(groupedMessages.standaloneMessages) |->
                     groupedMessages.standaloneMessages[i].id]]

(***************************************************************************)
(* withRetry and createRetryWrapper (core/utils/retry.ts)                  *)
(***************************************************************************)
\* largest maxRetries option of the runs
MaxRetries == 3

\* calls of one wrapped function
MaxRuns == 2

\* maxDelay = 30000 when the options name none
DefaultMaxDelay == 30000

\* backoffMultiplier = 1.5 when the options name none, as a fraction
DefaultBackoffMultiplier == [num |-> 3, den |-> 2]

\* lastError before any attempt failed (declared, not assigned)
Unassigned == 0

\* no rejection
NoError == [name |-> "", attempts |-> 0, lastError |-> Unassigned]

\* the options a wrapper is created with: maxRetries also 0 and negative; the delays
\* (ms) are ones whose first products with 1.5 are whole; the cap is the default or
\* a small one, between the two delays
RetryOptionsSet ==
  {[maxRetries |-> n, delay |-> d, backoffMultiplier |-> DefaultBackoffMultiplier,
    maxDelay |-> c] : n \in -1..MaxRetries, d \in {8, 12}, c \in {10, DefaultMaxDelay}}

\* Math.min
Min(a, b) == IF a <= b THEN a ELSE b

\* currentDelay * backoffMultiplier (exact for the delays of RetryOptionsSet)
TimesMultiplier(d, m) == (d * m.num) \div m.den

\* variant of CaughtError: lastError keeps the first error
CaughtError_KeepsFirst(lastError, error) == IF lastError = Unassigned THEN error ELSE lastError

\* lastError = error instanceof Error ? error : new Error(String(error))
CaughtError(lastError, error) == error

\* the head of the for loop with the loop variable at r.attempt: the operation is
\* invoked while attempt <= maxRetries; after the loop the RetryError is built from
\* lastError!.message, which throws a TypeError while lastError is not assigned
LoopHead(r) ==
  IF r.attempt <= r.options.maxRetries
  THEN [r EXCEPT !.pc = "pending", !.calls = r.calls + 1, !.total = r.total + 1]
  ELSE IF r.lastError = Unassigned
  THEN [r EXCEPT !.pc = "rejected",
                 !.error = [name |-> "TypeError", attempts |-> 0, lastError |-> Unassigned]]
  ELSE [r EXCEPT !.pc = "rejected",
                 !.error = [name |-> "RetryError", attempts |-> r.options.maxRetries,
                            lastError |-> r.lastError]]

\* variant of OnSuccess: the result is not returned and the loop goes on
OnSuccess_KeepsLooping(r) ==
  LoopHead([r EXCEPT !.settled = Append(r.settled, "ok"), !.attempt = r.attempt + 1])

\* return await operation(): the promise of the operation was fulfilled
OnSuccess(r) ==
  [r EXCEPT !.pc = "resolved", !.settled = Append(r.settled, "ok"), !.value = r.calls]

\* the catch block: the promise of the operation was rejected (or the operation
\* threw); the error of invocation number k is written k
OnFailure(r) ==
  LET caught == [r EXCEPT !.settled = Append(r.settled, "err"),
                          !.lastError = CaughtError(r.lastError, r.calls)]
  IN IF caught.attempt = caught.options.maxRetries
     THEN [caught EXCEPT !.pc = "rejected",
                         !.error = [name |-> "RetryError", attempts |-> caught.options.maxRetries,
                                    lastError |-> caught.lastError]]
     ELSE [caught EXCEPT !.pc = "waiting", !.waits = Append(caught.waits, caught.currentDelay)]

\* the timer of the wait fired: the delay grows, attempt++ and the loop head runs
OnTimer(r) ==
  LoopHead([r EXCEPT !.currentDelay = Min(TimesMultiplier(r.currentDelay, r.options.backoffMultiplier),
                                          r.options.maxDelay),
                     !.attempt = r.attempt + 1])

\* withRetry(operation, options) up to its first await
withRetry(r) ==
  LoopHead([r EXCEPT !.run = r.run + 1, !.attempt = 1, !.currentDelay = r.options.delay,
                     !.lastError = Unassigned, !.calls = 0, !.settled = <<>>, !.waits = <<>>,
                     !.value = 0, !.error = NoError])

\* createRetryWrapper(fn, options): the wrapper before its first call
createRetryWrapper(options) ==
  [pc |-> "ready", options |-> options, run |-> 0, attempt |-> 0, currentDelay |-> 0,
   lastError |-> Unassigned, calls |-> 0, total |-> 0, settled |-> <<>>, waits |-> <<>>,
   value |-> 0, error |-> NoError]

(***************************************************************************)
(* migrateDatabase (db/migrate.ts)                                         *)
(***************************************************************************)
\* the tables the migration reads, creates or drops
TableNames == {"users", "groups", "mentions", "documents", "topics",
               "message_document_relations", "message_topic_relations"}

\* the columns the migration adds
AddedColumns == {"users.user_type", "mentions.mention_type"}

\* the error of a database call that fails for a reason outside the schema
IOError == "disk I/O error"

\* a run of migrateDatabase: the database, the database calls made so far, the call
\* that fails for an outside reason (0: none) and the error thrown so far
StartRun(database, failAt) == [db |-> database, step |-> 0, failAt |-> failAt, error |-> ""]

\* the run once one more database call is counted
Called(m) == [m EXCEPT !.step = m.step + 1]

\* one database call, done being the run after its statement: skipped once an error
\* is thrown, failing when it is the call that fails for an outside reason, else done
Exec(m, done) ==
  IF m.error # "" THEN m
  ELSE IF m.step + 1 = m.failAt THEN [Called(m) EXCEPT !.error = IOError]
  ELSE done

\* BEGIN TRANSACTION, COMMIT and the SELECTs: no change of the database
NoChange(m) == Exec(m, Called(m))

\* ALTER TABLE users ADD COLUMN user_type ... DEFAULT 'user'
AlterUsers(m) ==
  LET c == Called(m)
  IN Exec(m,
       IF "users" \notin c.db.tables THEN [c EXCEPT !.error = "no such table: users"]
       ELSE IF "users.user_type" \in c.db.columns
       THEN [c EXCEPT !.error = "duplicate column name: user_type"]
       ELSE [c EXCEPT !.db.columns = c.db.columns \cup {"users.user_type"},
                      !.db.users = {[u EXCEPT !.user_type = "user"] : u \in c.db.users}])

\* ALTER TABLE mentions ADD COLUMN mention_type ... DEFAULT 'user'
AlterMentions(m) ==
  LET c == Called(m)
  IN Exec(m,
       IF "mentions" \notin c.db.tables THEN [c EXCEPT !.error = "no such table: mentions"]
       ELSE IF "mentions.mention_type" \in c.db.columns
       THEN [c EXCEPT !.error = "duplicate column name: mention_type"]
       ELSE [c EXCEPT !.db.columns = c.db.columns \cup {"mentions.mention_type"},
                      !.db.mentions = {[x EXCEPT !.mention_type = "user"] : x \in c.db.mentions}])

\* try { ALTER } catch, altered being the run after the ALTER: an error with
\* "duplicate column name", which only the ALTER throws, is not rethrown
TryAlter(altered) ==
  IF altered.error \in {"duplicate column name: user_type",
                        "duplicate column name: mention_type"}
  THEN [altered EXCEPT !.error = ""] ELSE altered

\* INSERT OR REPLACE INTO users (user_id, user_name, nickname, user_type)
\* VALUES (group_id, group_name, handle || group_name, 'group'), one group per call
RECURSIVE InsertGroups(_, _)
InsertGroups(m, groups) ==
  IF groups = <<>> THEN m
  ELSE LET group == Head(groups)
           c == Called(m)
           inserted ==
             [c EXCEPT !.db.users =
                {u \in c.db.users : u.user_id # group.group_id}
                  \cup {[user_id |-> group.group_id, user_name |-> group.group_name,
                          nickname |-> IF group.handle # "" THEN group.handle
                                       ELSE group.group_name,
                          user_type |-> "group"]}]
       IN InsertGroups(Exec(m, inserted), Tail(groups))

\* UPDATE mentions SET mention_type = 'group' WHERE user_id IN (groupIds)
UpdateMentions(m) ==
  LET c == Called(m)
  IN Exec(m, [c EXCEPT !.db.mentions =
                {IF x.user_id \in {g.group_id : g \in c.db.groups}
                 THEN [x EXCEPT !.mention_type = "group"] ELSE x : x \in c.db.mentions}])

\* DROP TABLE groups
DropGroups(m) ==
  LET c == Called(m)
  IN Exec(m, [c EXCEPT !.db.tables = c.db.tables \ {"groups"}, !.db.groups = {}])

migrateGroupsToUsers(m0) ==
  LET tablesResult == NoChange(m0)
  IN IF tablesResult.error # "" \/ "groups" \notin tablesResult.db.tables THEN tablesResult
     ELSE LET selected == NoChange(TryAlter(AlterUsers(tablesResult)))
              groups == TableScan(selected.db.groups)
              altered == TryAlter(AlterMentions(InsertGroups(selected, groups)))
          IN DropGroups(IF Len(groups) > 0 THEN UpdateMentions(altered) ELSE altered)

\* doc.name.replace(/\.md$/, "").replace(/-/g, " ")
TitleOf(name) ==
  LET n == Len(name)
      stem == IF n >= 3 /\ SubSeq(name, n - 2, n) = <<".", "m", "d">>
              THEN SubSeq(name, 1, n - 3) ELSE name
  IN [i \in 1..Len(stem) |-> IF stem[i] = "-" THEN " " ELSE stem[i]]

\* CREATE TABLE topics (the caller saw that there is none)
CreateTopics(m) ==
  LET c == Called(m)
  IN Exec(m, [c EXCEPT !.db.tables = c.db.tables \cup {"topics"}])

\* INSERT INTO topics (id, title, file_name, created_at, updated_at), one document
\* per call; file_name is UNIQUE
RECURSIVE InsertTopics(_, _)
InsertTopics(m, documents) ==
  IF documents = <<>> THEN m
  ELSE LET doc == Head(documents)
           c == Called(m)
           inserted ==
             IF \E t \in c.db.topics : t.file_name = doc.name
             THEN [c EXCEPT !.error = "UNIQUE constraint failed: topics.file_name"]
             ELSE [c EXCEPT !.db.topics = c.db.topics
                      \cup {[id |-> doc.id, title |-> TitleOf(doc.name), file_name |-> doc.name]}]
       IN InsertTopics(Exec(m, inserted), Tail(documents))

\* CREATE TABLE message_topic_relations
CreateRelations(m) ==
  LET c == Called(m)
  IN Exec(m,
       IF "message_topic_relations" \in c.db.tables
       THEN [c EXCEPT !.error = "table message_topic_relations already exists"]
       ELSE [c EXCEPT !.db.tables = c.db.tables \cup {"message_topic_relations"}])

\* SELECT message_id, document_id FROM message_document_relations
SelectRelations(m) ==
  LET c == Called(m)
  IN Exec(m,
       IF "message_document_relations" \notin c.db.tables
       THEN [c EXCEPT !.error = "no such table: message_document_relations"]
       ELSE c)

\* INSERT INTO message_topic_relations (message_id, topic_id), one relation per call
RECURSIVE InsertRelations(_, _)
InsertRelations(m, relations) ==
  IF relations = <<>> THEN m
  ELSE LET relation == Head(relations)
           c == Called(m)
           inserted ==
             [c EXCEPT !.db.mtr = c.db.mtr
                \cup {[id |-> relation.id, message_id |-> relation.message_id,
                        topic_id |-> relation.document_id]}]
       IN InsertRelations(Exec(m, inserted), Tail(relations))

\* DROP TABLE message_document_relations
DropDocumentRelations(m) ==
  LET c == Called(m)
  IN Exec(m, [c EXCEPT !.db.tables = c.db.tables \ {"message_document_relations"},
                       !.db.mdr = {}])

\* DROP TABLE documents
DropDocuments(m) ==
  LET c == Called(m)
  IN Exec(m, [c EXCEPT !.db.tables = c.db.tables \ {"documents"}, !.db.documents = {}])

migrateDocumentsToTopics(m0) ==
  LET documentsTableResult == NoChange(m0)
  IN IF documentsTableResult.error # "" \/ "documents" \notin documentsTableResult.db.tables
     THEN documentsTableResult
     ELSE LET topicsTableResult == NoChange(documentsTableResult)
          IN IF topicsTableResult.error # "" \/ "topics" \in topicsTableResult.db.tables
             THEN topicsTableResult
             ELSE LET selected == NoChange(CreateTopics(topicsTableResult))
                      inserted == InsertTopics(selected, TableScan(selected.db.documents))
                      selected2 == SelectRelations(CreateRelations(inserted))
                      inserted2 == InsertRelations(selected2, TableScan(selected2.db.mdr))
                  IN DropDocuments(DropDocumentRelations(inserted2))

\* variant of Rollback: the catch block does not roll back
Rollback_KeepsChanges(before, m) == m.db

\* ROLLBACK: the database as it was at BEGIN TRANSACTION (an error of ROLLBACK
\* itself, with no transaction open, is logged and the database is as it was)
Rollback(before, m) == before

\* migrateDatabase: the database it leaves, the error it throws ("" when it
\* returns) and whether COMMIT was executed
migrateDatabase(database, failAt) ==
  LET begun == NoChange(StartRun(database, failAt))
      migrated == migrateDocumentsToTopics(migrateGroupsToUsers(begun))
      committed == NoChange(migrated)
  IN IF committed.error = ""
     THEN [db |-> committed.db, error |-> "", committed |-> TRUE, steps |-> committed.step]
     ELSE [db |-> Rollback(database, committed), error |-> committed.error,
           committed |-> FALSE, steps |-> committed.step]

(***************************************************************************)
(* The HTTP server (unnamed/part_017)                                      *)
(***************************************************************************)
\* a pathname is the sequence of its segments, each a sequence of characters:
\* "/api/documents/12" is <<Api, Documents, <<"1", "2">>>>, and "/api/documents/"
\* ends with the empty segment
Api == <<"a", "p", "i">>

Documents == <<"d", "o", "c", "u", "m", "e", "n", "t", "s">>

Search == <<"s", "e", "a", "r", "c", "h">>

Messages == <<"m", "e", "s", "s", "a", "g", "e", "s">>

Health == <<"h", "e", "a", "l", "t", "h">>

\* the topics table: the ids of the stored topics
StoredTopics == {1, 10}

\* no response yet
NoResponse == [status |-> 0, error |-> "", handler |-> "", topicId |-> 0]

\* pathname.startsWith("/api/documents/")
StartsWithDocuments(pathname) ==
  Len(pathname) >= 3 /\ pathname[1] = Api /\ pathname[2] = Documents

\* pathname.endsWith("/messages")
EndsWithMessages(pathname) == Len(pathname) >= 1 /\ pathname[Len(pathname)] = Messages

\* the digits of the radix
DigitsOfRadix(radix) == IF radix = 16 THEN DigitChars \cup {"a", "b", "c", "d", "e", "f"}
                        ELSE DigitChars

\* the value of a digit, also of a hexadecimal one
HexDigitValue(c) ==
  CASE c = "a" -> 10 [] c = "b" -> 11 [] c = "c" -> 12 [] c = "d" -> 13 [] c = "e" -> 14
    [] c = "f" -> 15 [] OTHER -> DigitValue(c)

\* the longest prefix of the string made of digits of the radix
RECURSIVE DigitPrefix(_, _)
DigitPrefix(s, radix) ==
  IF s # <<>> /\ Head(s) \in DigitsOfRadix(radix)
  THEN <<Head(s)>> \o DigitPrefix(Tail(s), radix) ELSE <<>>

\* the number a string of digits writes in the radix
RECURSIVE ValueInRadix(_, _)
ValueInRadix(s, radix) ==
  IF s = <<>> THEN 0
  ELSE ValueInRadix(SubSeq(s, 1, Len(s) - 1), radix) * radix + HexDigitValue(s[Len(s)])

\* parseInt(string): leading white space is skipped, a sign is read, "0x" selects
\* radix 16, then the longest prefix of digits is the number, whatever follows it;
\* NaN when there is no digit
parseInt(s) ==
  LET trimmed == trimStart(s)
      signed == trimmed # <<>> /\ Head(trimmed) \in {"+", "-"}
      sign == IF signed /\ Head(trimmed) = "-" THEN -1 ELSE 1
      unsigned == IF signed THEN Tail(trimmed) ELSE trimmed
      hex == Len(unsigned) >= 2 /\ unsigned[1] = "0" /\ unsigned[2] \in {"x", "X"}
      radix == IF hex THEN 16 ELSE 10
      digits == DigitPrefix(IF hex THEN Tail(Tail(unsigned)) ELSE unsigned, radix)
  IN IF digits = <<>> THEN [nan |-> TRUE, value |-> 0]
     ELSE [nan |-> FALSE, value |-> sign * ValueInRadix(digits, radix)]

\* handleGetDocument(id)
handleGetDocument(id) ==
  LET topicId == parseInt(id)
  IN IF topicId.nan
     THEN [NoResponse EXCEPT !.status = 400, !.error = "Invalid document ID",
                             !.handler = "handleGetDocument"]
     ELSE IF topicId.value \notin StoredTopics
     THEN [NoResponse EXCEPT !.status = 404, !.error = "Document not found",
                             !.handler = "handleGetDocument", !.topicId = topicId.value]
     ELSE [NoResponse EXCEPT !.status = 200, !.handler = "handleGetDocument",
                             !.topicId = topicId.value]

\* handleGetDocumentMessages(id)
handleGetDocumentMessages(id) ==
  LET topicId == parseInt(id)
  IN IF topicId.nan
     THEN [NoResponse EXCEPT !.status = 400, !.error = "Invalid document ID",
                             !.handler = "handleGetDocumentMessages"]
     ELSE [NoResponse EXCEPT !.status = 200, !.handler = "handleGetDocumentMessages",
                             !.topicId = topicId.value]

\* handleSearchDocuments(query)
handleSearchDocuments(query) ==
  IF trim(query) = <<>>
  THEN [NoResponse EXCEPT !.status = 400, !.error = "Search query is required",
                          !.handler = "handleSearchDocuments"]
  ELSE [NoResponse EXCEPT !.status = 200, !.handler = "handleSearchDocuments"]

\* fetch(request): the routes in the order of the code; q is
\* url.searchParams.get("q") || ""
fetch(request) ==
  LET pathname == request.pathname
  IN IF request.method = "OPTIONS"
     THEN [NoResponse EXCEPT !.status = 200, !.handler = "preflight"]
     ELSE IF pathname = <<Api, Documents>> /\ request.method = "GET"
     THEN [NoResponse EXCEPT !.status = 200, !.handler = "handleGetDocuments"]
     ELSE IF pathname = <<Api, Documents, Search>> /\ request.method = "GET"
     THEN handleSearchDocuments(request.q)
     ELSE IF StartsWithDocuments(pathname) /\ EndsWithMessages(pathname) /\ request.method = "GET"
     THEN handleGetDocumentMessages(pathname[3])
     ELSE IF StartsWithDocuments(pathname) /\ request.method = "GET"
     THEN handleGetDocument(pathname[3])
     ELSE IF pathname = <<Health>> /\ request.method = "GET"
     THEN [NoResponse EXCEPT !.status = 200, !.handler = "health"]
     ELSE [NoResponse EXCEPT !.status = 404, !.error = "Not Found", !.handler = "notFound"]

(***************************************************************************)
(* fetchChannelMessages (repository/messagesFetcher.ts, core/utils/retry.ts) *)
(***************************************************************************)
\* the wait after a batch, in milliseconds
BatchDelay == 500

\* the wait after the replies of a thread were fetched, in milliseconds
ThreadDelay == 300

\* the response of conversations.history before any request
NoHistory == [ok |-> FALSE, next_cursor |-> "undefined"]

\* fetchChannelMessages was not called. In a call, pc is the await the call is
\* suspended at, outstanding the history requests sent and not yet answered,
\* threads the messages with replies still to process in the page at hand,
\* clock the time in milliseconds and processedAt the time the last page was
\* processed at
NoFetch == [pc |-> "none", copy |-> "", cursor |-> "undefined", hasMore |-> FALSE,
            requests |-> 0, outstanding |-> 0, response |-> NoHistory, pages |-> 0,
            threads |-> 0, replies |-> 0, clock |-> 0, processedAt |-> 0]

\* variant of ToBoolean: only undefined is false
ToBoolean_Defined(cursor) == cursor # "undefined"

\* !!cursor: undefined and the empty string are false
ToBoolean(cursor) == cursor \notin {"undefined", ""}

\* while (hasMore): the next history request is sent, or the loop is left and
\* the call returns
WhileHasMore(f) ==
  IF f.hasMore
  THEN [f EXCEPT !.pc = "history", !.requests = f.requests + 1,
                 !.outstanding = f.outstanding + 1]
  ELSE [f EXCEPT !.pc = "returned"]

\* variant of EndOfBatch: the loop goes on without the wait after the batch
EndOfBatch_NoWait(f) ==
  WhileHasMore([f EXCEPT !.cursor = f.response.next_cursor,
                     !.hasMore = ToBoolean(f.response.next_cursor),
                     !.processedAt = f.clock])

\* the end of the loop body: the cursor of the response is kept and the wait
\* after the batch starts
EndOfBatch(f) ==
  [f EXCEPT !.cursor = f.response.next_cursor,
            !.hasMore = ToBoolean(f.response.next_cursor),
            !.processedAt = f.clock,
            !.pc = "batchDelay"]

\* for (const msg of channelMessages): the replies of the next message that has
\* some are requested, or the batch ends
NextThread(f) == IF f.threads > 0 THEN [f EXCEPT !.pc = "replies"] ELSE EndOfBatch(f)

(***************************************************************************)
(* State machine                                                           *)
(***************************************************************************)
NoGrouped == [threads |-> <<>>, standaloneMessages |-> <<>>, totalMessageCount |-> 0]

\* no markdown was rendered
NoMarkdown == [threads |-> <<>>, standalone |-> <<>>]

NoFilter == [startDate |-> InvalidDate, endDate |-> InvalidDate, userMentions |-> <<>>,
             userContainings |-> <<>>, includeThreads |-> FALSE]

\* what the last call returned or threw; queries is the number of db.queryEntries
\* calls it made, input is the list handed to the grouping step
NoCall == [op |-> "none", filter |-> NoFilter, parentTs |-> NoThread, error |-> "",
           queries |-> 0, messages |-> <<>>, input |-> <<>>, grouped |-> NoGrouped,
           memory |-> MemoryAtCall(<<>>), markdown |-> NoMarkdown]

\* the selections a caller makes: no identity filter, one sender, one mention target
Selections ==
  {[userMentions |-> <<>>, userContainings |-> <<>>],
   [userMentions |-> <<>>, userContainings |-> <<"U1">>],
   [userMentions |-> <<"U1">>, userContainings |-> <<>>]}

\* the filters a caller passes (start after end included)
Filters ==
  {[startDate |-> s, endDate |-> e, userMentions |-> sel.userMentions,
    userContainings |-> sel.userContainings, includeThreads |-> inc] :
     s \in Instants, e \in Instants, sel \in Selections, inc \in BOOLEAN}

\* no function was wrapped
NoRetry == [pc |-> "none"]

\* no database file was opened for a migration
NoDatabase == [tables |-> {}]

\* the server got no request
NoRequest == [method |-> "", pathname |-> <<>>, q |-> <<>>, response |-> NoResponse]

\* migrateDatabase was not called
NoMigration == [op |-> "none"]

\* no validation or parsing call was made yet; a call leaves isValid and error
\* (validateUserMention) or returned, error and value (parseCommandArgs)
NoResult == [op |-> "none", isValid |-> FALSE, error |-> <<>>, returned |-> FALSE,
             value |-> NoArgs]

Init ==
  /\ db = {}
  /\ nextId = 1
  /\ out = NoCall
  /\ argv = <<>>
  /\ result = NoResult
  /\ retry = NoRetry
  /\ sqlite = NoDatabase
  /\ migration = NoMigration
  /\ http = NoRequest
  /\ fetcher = NoFetch

\* saveMessages(db, messages)
SaveMessages(msgs) ==
  /\ nextId + Len(msgs) - 1 <= MaxSaves
  /\ db' = SaveAll(db, nextId, msgs)
  /\ nextId' = nextId + Len(msgs)
  /\ out' = [NoCall EXCEPT !.op = "saveMessages"]
  /\ UNCHANGED <<cliVars, retryVars, migrationVars, netVars>>

\* getMessagesInTimeRange(db, startDate, endDate)
GetMessagesInTimeRange(startDate, endDate) ==
  LET err == validateDateRange(startDate, endDate)
  IN /\ out' = [NoCall EXCEPT !.op = "getMessagesInTimeRange",
                              !.filter = [NoFilter EXCEPT !.startDate = startDate, !.endDate = endDate],
                              !.error = err,
                              !.queries = IF err = "" THEN 1 ELSE 0,
                              !.messages = IF err = "" THEN getMessagesInTimeRange(db, startDate, endDate)
                                           ELSE <<>>]
     /\ UNCHANGED <<db, nextId>>
     /\ UNCHANGED <<cliVars, retryVars, migrationVars, netVars>>

\* getThreadMessages(db, parentTs)
GetThreadMessages(parentTs) ==
  /\ out' = [NoCall EXCEPT !.op = "getThreadMessages", !.parentTs = parentTs,
                           !.queries = 1,
                           !.messages = getThreadMessages(db, parentTs)]
  /\ UNCHANGED <<db, nextId>>
  /\ UNCHANGED <<cliVars, retryVars, migrationVars, netVars>>

\* getFilteredMessages(db, filter)
GetFilteredMessages(filter) ==
  LET err == validateDateRange(filter.startDate, filter.endDate)
  IN /\ out' = [NoCall EXCEPT !.op = "getFilteredMessages", !.filter = filter, !.error = err,
                              !.queries = IF err = "" THEN QueriesOfFiltered(db, filter) ELSE 0,
                              !.messages = IF err = "" THEN getFilteredMessages(db, filter) ELSE <<>>]
     /\ UNCHANGED <<db, nextId>>
     /\ UNCHANGED <<cliVars, retryVars, migrationVars, netVars>>

\* getFilteredMessagesGrouped(db, filter)
GetFilteredMessagesGrouped(filter) ==
  LET err == validateDateRange(filter.startDate, filter.endDate)
  IN /\ out' = [NoCall EXCEPT !.op = "getFilteredMessagesGrouped", !.filter = filter, !.error = err,
                              !.queries = IF err = "" THEN QueriesOfFiltered(db, filter) ELSE 0,
                              !.input = IF err = "" THEN MessagesToGroup(db, filter) ELSE <<>>,
                              !.memory = IF err = "" THEN MemoryAtReturn(MessagesToGroup(db, filter))
                                         ELSE MemoryAtCall(<<>>),
                              !.grouped = IF err = "" THEN getFilteredMessagesGrouped(db, filter)
                                          ELSE NoGrouped]
     /\ UNCHANGED <<db, nextId>>
     /\ UNCHANGED <<cliVars, retryVars, migrationVars, netVars>>

\* getMessagesFromUsers(db, startDate, endDate, userContainings)
GetMessagesFromUsers(startDate, endDate, userContainings) ==
  LET err == validateDateRange(startDate, endDate)
  IN /\ out' = [NoCall EXCEPT !.op = "getMessagesFromUsers",
                              !.filter = [NoFilter EXCEPT !.startDate = startDate, !.endDate = endDate,
                                                          !.userContainings = userContainings],
                              !.error = err,
                              !.queries = IF err = "" THEN 1 ELSE 0,
                              !.messages = IF err = ""
                                           THEN getMessagesFromUsers(db, startDate, endDate, userContainings)
                                           ELSE <<>>]
     /\ UNCHANGED <<db, nextId>>
     /\ UNCHANGED <<cliVars, retryVars, migrationVars, netVars>>

\* getMessagesWithMultipleUserMentions(db, startDate, endDate, userMentions)
GetMessagesWithMultipleUserMentions(startDate, endDate, userMentions) ==
  LET err == validateDateRange(startDate, endDate)
  IN /\ out' = [NoCall EXCEPT !.op = "getMessagesWithMultipleUserMentions",
                              !.filter = [NoFilter EXCEPT !.startDate = startDate, !.endDate = endDate,
                                                          !.userMentions = userMentions],
                              !.error = err,
                              !.queries = IF err = "" THEN 1 ELSE 0,
                              !.messages = IF err = ""
                                           THEN getMessagesWithMultipleUserMentions(db, startDate, endDate,
                                                                                    userMentions)
                                           ELSE <<>>]
     /\ UNCHANGED <<db, nextId>>
     /\ UNCHANGED <<cliVars, retryVars, migrationVars, netVars>>

\* the crawler and the document generator: messages are saved and grouped
Next ==
  \/ \E m \in CrawledMessages : SaveMessages(<<m>>)
  \/ \E f \in Filters : GetFilteredMessagesGrouped(f)

Spec == Init /\ [][Next]_vars

\* the crawler and the plain queries of the store
NextQueries ==
  \/ \E m \in CrawledMessages : SaveMessages(<<m>>)
  \/ \E s \in Dates, e \in Dates : GetMessagesInTimeRange(s, e)
  \/ \E t \in TsValues \cup (ThreadIds \ {NoThread}) : GetThreadMessages(t)
  \/ \E f \in Filters : GetFilteredMessages(f)

SpecQueries == Init /\ [][NextQueries]_vars

\* the selections of a filter that may name mentioned users and senders at once
CombinedSelections ==
  {[userMentions |-> m, userContainings |-> c] :
     m \in {<<>>, <<"U1">>}, c \in {<<>>, <<"U1">>, <<"U2">>}}

\* the filters over the whole window with these selections
CombinedFilters ==
  {[startDate |-> 9, endDate |-> 10, userMentions |-> sel.userMentions,
    userContainings |-> sel.userContainings, includeThreads |-> inc] :
     sel \in CombinedSelections, inc \in BOOLEAN}

\* the crawler and the two retrievals of the message retriever
NextSelections ==
  \/ \E m \in CrawledMessages : SaveMessages(<<m>>)
  \/ \E f \in CombinedFilters : GetFilteredMessages(f)
  \/ \E f \in CombinedFilters : GetFilteredMessagesGrouped(f)

SpecSelections == Init /\ [][NextSelections]_vars

\* groupedMessagesToMarkdown(groupedMessages, db) on the result of the last call of
\* getFilteredMessagesGrouped, as generateDocuments calls it
GroupedMessagesToMarkdown ==
  /\ out.op = "getFilteredMessagesGrouped"
  /\ out.error = ""
  /\ out.grouped.totalMessageCount # 0
  /\ out' = [out EXCEPT !.op = "groupedMessagesToMarkdown",
                        !.markdown = groupedMessagesToMarkdown(out.grouped)]
  /\ UNCHANGED <<db, nextId>>
  /\ UNCHANGED <<cliVars, retryVars, migrationVars, netVars>>

\* the crawler and the document generator up to the markdown handed to the AI
NextMarkdown ==
  \/ \E m \in CrawledMessages : SaveMessages(<<m>>)
  \/ \E f \in CombinedFilters : GetFilteredMessagesGrouped(f)
  \/ GroupedMessagesToMarkdown

SpecMarkdown == Init /\ [][NextMarkdown]_vars

\* the sender references of a request: ids and names, with and without "@"
SenderRefLists ==
  {<<ref>> : ref \in DOMAIN Spelling} \cup {<<"U2", "@Uma">>, <<"bob", "U1">>}

\* the crawler and the retrieval by sender
NextSenders ==
  \/ \E m \in CrawledMessages : SaveMessages(<<m>>)
  \/ \E s \in Instants, e \in Instants, refs \in SenderRefLists : GetMessagesFromUsers(s, e, refs)

SpecSenders == Init /\ [][NextSenders]_vars

\* the date arguments of a request: two dates of January, a month 13 and a date
\* that is not written YYYY-MM-DD
DateArgs ==
  {<<"2", "0", "2", "4", "-", "0", "1", "-", "0", "1">>,
   <<"2", "0", "2", "4", "-", "0", "1", "-", "3", "1">>,
   <<"2", "0", "2", "4", "-", "1", "3", "-", "0", "1">>,
   <<"2", "0", "2", "4", "-", "1", "-", "1">>}

\* the identity references of a request: an id, names (one with white space in
\* front), a bracketed id and three malformed ones
RefArgs ==
  {<<"U", "a">>, <<"@", "a">>, <<" ", "a">>, <<"<", "@", "U", "1", ">">>,
   <<"a", "!">>, <<" ">>, <<>>}

\* most identity references of one request
MaxRefs == 2

\* Deno.args of a request: too few arguments, or two dates and the references
ArgLists ==
  {<<>>} \cup {<<d>> : d \in DateArgs}
    \cup {<<d[1], d[2]>> \o refs :
            d \in DateArgs \X DateArgs, refs \in UNION {[1..k -> RefArgs] : k \in 0..MaxRefs}}

InitArgs ==
  /\ db = {}
  /\ nextId = 1
  /\ out = NoCall
  /\ argv \in ArgLists
  /\ result = NoResult
  /\ retry = NoRetry
  /\ sqlite = NoDatabase
  /\ migration = NoMigration
  /\ http = NoRequest
  /\ fetcher = NoFetch

\* parseCommandArgs(args)
ParseCommandArgs ==
  LET p == parseCommandArgs(argv)
  IN /\ result' = [NoResult EXCEPT !.op = "parseCommandArgs", !.returned = (p.error = <<>>),
                                    !.error = p.error, !.value = p.value]
     /\ UNCHANGED <<argv, storeVars, retryVars, migrationVars, netVars>>

NextArgs == ParseCommandArgs

SpecArgs == InitArgs /\ [][NextArgs]_vars

InitRetry ==
  /\ db = {}
  /\ nextId = 1
  /\ out = NoCall
  /\ argv = <<>>
  /\ result = NoResult
  /\ retry \in {createRetryWrapper(o) : o \in RetryOptionsSet}
  /\ sqlite = NoDatabase
  /\ migration = NoMigration
  /\ http = NoRequest
  /\ fetcher = NoFetch

\* the wrapped function is called: withRetry starts
CallWrapped ==
  /\ retry.pc \in {"ready", "resolved", "rejected"}
  /\ retry.run < MaxRuns
  /\ retry' = withRetry(retry)
  /\ UNCHANGED <<storeVars, cliVars, migrationVars, netVars>>

\* the operation returns a value
OperationSucceeds ==
  /\ retry.pc = "pending"
  /\ retry' = OnSuccess(retry)
  /\ UNCHANGED <<storeVars, cliVars, migrationVars, netVars>>

\* the operation throws
OperationFails ==
  /\ retry.pc = "pending"
  /\ retry' = OnFailure(retry)
  /\ UNCHANGED <<storeVars, cliVars, migrationVars, netVars>>

\* the setTimeout of the wait before the next attempt fires
TimerFires ==
  /\ retry.pc = "waiting"
  /\ retry' = OnTimer(retry)
  /\ UNCHANGED <<storeVars, cliVars, migrationVars, netVars>>

NextRetry == CallWrapped \/ OperationSucceeds \/ OperationFails \/ TimerFires

SpecRetry == InitRetry /\ [][NextRetry]_vars

\* most database calls of one migration of the databases below: the call that fails
\* for an outside reason is one of them
MaxStatements == 21

\* rows of a database written before the migration existed
LegacyGroups ==
  {[id |-> 1, group_id |-> "S1", group_name |-> "team", handle |-> ""],
   [id |-> 2, group_id |-> "S2", group_name |-> "ops", handle |-> "oncall"]}

LegacyUsers(C) ==
  {[user_id |-> "U1", user_name |-> "Uma", nickname |-> "",
    user_type |-> IF "users.user_type" \in C THEN "user" ELSE ""],
   [user_id |-> "S1", user_name |-> "old", nickname |-> "",
    user_type |-> IF "users.user_type" \in C THEN "user" ELSE ""]}

LegacyMentions(C) ==
  {[user_id |-> "S1", mention_type |-> IF "mentions.mention_type" \in C THEN "user" ELSE ""],
   [user_id |-> "U1", mention_type |-> IF "mentions.mention_type" \in C THEN "user" ELSE ""]}

LegacyDocuments ==
  {[id |-> 1, name |-> <<"a", "-", "b", ".", "m", "d">>],
   [id |-> 2, name |-> <<"c", ".", "m", "d">>]}

\* two documents of the same name
ClashingDocuments ==
  {[id |-> 1, name |-> <<"c", ".", "m", "d">>], [id |-> 2, name |-> <<"c", ".", "m", "d">>]}

LegacyRelations == {[id |-> 1, message_id |-> 1, document_id |-> 1]}

\* the database files migrateDatabase is run on: any set of the tables, with and
\* without the added columns, empty or with rows
LegacyDatabases ==
  {[tables |-> T, columns |-> C,
    users |-> IF "users" \in T /\ u THEN LegacyUsers(C) ELSE {},
    groups |-> IF "groups" \in T THEN g ELSE {},
    mentions |-> IF "mentions" \in T THEN LegacyMentions(C) ELSE {},
    documents |-> IF "documents" \in T THEN d ELSE {},
    topics |-> {},
    mdr |-> IF "message_document_relations" \in T THEN r ELSE {},
    mtr |-> {}] :
     T \in SUBSET TableNames,
     C \in SUBSET AddedColumns,
     u \in BOOLEAN,
     g \in {{}, LegacyGroups},
     d \in {{}, LegacyDocuments, ClashingDocuments},
     r \in {{}, LegacyRelations}}

InitMigration ==
  /\ db = {}
  /\ nextId = 1
  /\ out = NoCall
  /\ argv = <<>>
  /\ result = NoResult
  /\ retry = NoRetry
  /\ sqlite \in {D \in LegacyDatabases :
                    /\ "users.user_type" \in D.columns => "users" \in D.tables
                    /\ "mentions.mention_type" \in D.columns => "mentions" \in D.tables}
  /\ migration = NoMigration
  /\ http = NoRequest
  /\ fetcher = NoFetch

\* migrateDatabase(db), with the database call that fails for an outside reason
MigrateDatabase(failAt) ==
  LET r == migrateDatabase(sqlite, failAt)
  IN /\ sqlite' = r.db
     /\ migration' = [op |-> "migrateDatabase", before |-> sqlite, error |-> r.error,
                       committed |-> r.committed, steps |-> r.steps, failAt |-> failAt]
     /\ UNCHANGED <<storeVars, cliVars, retryVars, netVars>>

NextMigration == \E failAt \in 0..MaxStatements : MigrateDatabase(failAt)

SpecMigration == InitMigration /\ [][NextMigration]_vars

\* most pages of a channel
MaxPages == 3

\* most messages with replies in a page
MaxThreads == 2

InitFetcher ==
  /\ db = {}
  /\ nextId = 1
  /\ out = NoCall
  /\ argv = <<>>
  /\ result = NoResult
  /\ retry = NoRetry
  /\ sqlite = NoDatabase
  /\ migration = NoMigration
  /\ http = NoRequest
  /\ fetcher = NoFetch

\* fetchChannelMessages(client, channelId, ...) of one of the two copies: the copy
\* of core/utils/retry.ts fetches no replies
FetchChannelMessages(copy) ==
  /\ fetcher.pc = "none"
  /\ fetcher' = [NoFetch EXCEPT !.pc = "info", !.copy = copy, !.hasMore = TRUE]
  /\ UNCHANGED <<storeVars, cliVars, retryVars, migrationVars, http>>

\* conversations.info answers
InfoResponds ==
  /\ fetcher.pc = "info"
  /\ fetcher' = WhileHasMore(fetcher)
  /\ UNCHANGED <<storeVars, cliVars, retryVars, migrationVars, http>>

\* conversations.info rejects: the call rejects
InfoThrows ==
  /\ fetcher.pc = "info"
  /\ fetcher' = [fetcher EXCEPT !.pc = "rejected"]
  /\ UNCHANGED <<storeVars, cliVars, retryVars, migrationVars, http>>

\* conversations.history answers with a page, of which some messages have replies
HistoryResponds(ok, next_cursor, threads) ==
  /\ fetcher.pc = "history"
  /\ next_cursor = "next" => fetcher.requests < MaxPages
  /\ threads > 0 => ok /\ fetcher.copy = "repository"
  /\ LET answered == [fetcher EXCEPT !.outstanding = fetcher.outstanding - 1,
                                     !.response = [ok |-> ok, next_cursor |-> next_cursor]]
     IN fetcher' = IF ~ok THEN [answered EXCEPT !.pc = "returned"]
                   ELSE NextThread([answered EXCEPT !.pages = answered.pages + 1,
                                                    !.threads = threads])
  /\ UNCHANGED <<storeVars, cliVars, retryVars, migrationVars, http>>

\* conversations.history rejects: the call rejects
HistoryThrows ==
  /\ fetcher.pc = "history"
  /\ fetcher' = [fetcher EXCEPT !.pc = "rejected", !.outstanding = fetcher.outstanding - 1]
  /\ UNCHANGED <<storeVars, cliVars, retryVars, migrationVars, http>>

\* fetchThreadReplies returns the replies, or nothing when conversations.replies
\* was not ok or rejected; the wait after the thread starts
FetchThreadReplies(fetched) ==
  /\ fetcher.pc = "replies"
  /\ fetcher' = [fetcher EXCEPT !.pc = "threadDelay",
                                !.replies = fetcher.replies + (IF fetched THEN 1 ELSE 0)]
  /\ UNCHANGED <<storeVars, cliVars, retryVars, migrationVars, http>>

\* the wait after a thread is over
ThreadTimerFires ==
  /\ fetcher.pc = "threadDelay"
  /\ fetcher' = NextThread([fetcher EXCEPT !.clock = fetcher.clock + ThreadDelay,
                                           !.threads = fetcher.threads - 1])
  /\ UNCHANGED <<storeVars, cliVars, retryVars, migrationVars, http>>

\* the wait after a batch is over
BatchTimerFires ==
  /\ fetcher.pc = "batchDelay"
  /\ fetcher' = WhileHasMore([fetcher EXCEPT !.clock = fetcher.clock + BatchDelay])
  /\ UNCHANGED <<storeVars, cliVars, retryVars, migrationVars, http>>

NextFetcher ==
  \/ \E copy \in {"repository", "core"} : FetchChannelMessages(copy)
  \/ InfoResponds
  \/ InfoThrows
  \/ \E ok \in BOOLEAN, next_cursor \in {"undefined", "", "next"}, threads \in 0..MaxThreads :
       HistoryResponds(ok, next_cursor, threads)
  \/ HistoryThrows
  \/ \E fetched \in BOOLEAN : FetchThreadReplies(fetched)
  \/ ThreadTimerFires
  \/ BatchTimerFires

SpecFetcher == InitFetcher /\ [][NextFetcher]_vars

\* longest document id of the requests
MaxIdLen == 3

\* the characters of the ids: digits, a letter, the signs and the decimal point
IdChars == {"0", "1", "x", "-", "+", "."}

\* the third segment of the requested pathnames: short strings and the names of
\* the routes below /api/documents
IdSegments == UNION {[1..k -> IdChars] : k \in 0..MaxIdLen} \cup {Search, Messages}

\* the requested pathnames
Pathnames ==
  {<<Api, Documents>>, <<Health>>, <<Api>>, <<Api, Search>>}
    \cup {<<Api, Documents, id>> : id \in IdSegments}
    \cup {<<Api, Documents, id, Messages>> : id \in IdSegments}
    \cup {<<Api, Documents, id, <<>>>> : id \in IdSegments}

\* the requests: the query parameter q is absent or empty, blank, or a word
Requests ==
  {[method |-> m, pathname |-> p, q |-> q, response |-> NoResponse] :
     m \in {"GET", "POST", "OPTIONS"}, p \in Pathnames, q \in {<<>>, <<" ">>, <<"t">>}}

InitServer ==
  /\ db = {}
  /\ nextId = 1
  /\ out = NoCall
  /\ argv = <<>>
  /\ result = NoResult
  /\ retry = NoRetry
  /\ sqlite = NoDatabase
  /\ migration = NoMigration
  /\ http \in Requests
  /\ fetcher = NoFetch

\* the server answers the request
Fetch ==
  /\ http.response = NoResponse
  /\ http' = [http EXCEPT !.response = fetch(http)]
  /\ UNCHANGED <<storeVars, cliVars, retryVars, migrationVars, fetcher>>

NextServer == Fetch

SpecServer == InitServer /\ [][NextServer]_vars

\* longest reference body of the validation runs
MaxMentionLen == 3

\* the strings of at most n characters
StringsUpTo(n) == UNION {[1..k -> MentionChars] : k \in 0..n}

\* the references handed to validateUserMention: a body, bare or written as <@body>,
\* with or without white space around it
MentionInputs ==
  {l \o m \o r : l \in {<<>>, <<" ">>}, r \in {<<>>, <<" ">>},
                   m \in StringsUpTo(MaxMentionLen)
                          \cup {<<"<", "@">> \o b \o <<">">> : b \in StringsUpTo(MaxMentionLen)}}

InitMentions ==
  /\ db = {}
  /\ nextId = 1
  /\ out = NoCall
  /\ argv \in {<<m>> : m \in MentionInputs}
  /\ result = NoResult
  /\ retry = NoRetry
  /\ sqlite = NoDatabase
  /\ migration = NoMigration
  /\ http = NoRequest
  /\ fetcher = NoFetch

\* validateUserMention(mention)
ValidateUserMention ==
  LET v == validateUserMention(argv[1])
  IN /\ result' = [NoResult EXCEPT !.op = "validateUserMention", !.isValid = v.isValid,
                                    !.error = v.error]
     /\ UNCHANGED <<argv, storeVars, retryVars, migrationVars, netVars>>

NextMentions == ValidateUserMention

SpecMentions == InitMentions /\ [][NextMentions]_vars

\* Date values a caller may pass where a range is validated: the instants of the
\* messages and an Invalid Date
ValidatedDates == Instants \cup {InvalidDate}

\* the filters of the range-validation runs: thread expansion, no identity filter
ValidatedFilters ==
  {[NoFilter EXCEPT !.startDate = s, !.endDate = e, !.includeThreads = TRUE] :
     s \in ValidatedDates, e \in ValidatedDates}

\* the crawler and the five operations that validate a date range
NextValidation ==
  \/ \E m \in CrawledMessages : SaveMessages(<<m>>)
  \/ \E s \in ValidatedDates, e \in ValidatedDates : GetMessagesInTimeRange(s, e)
  \/ \E s \in ValidatedDates, e \in ValidatedDates : GetMessagesFromUsers(s, e, <<"U1">>)
  \/ \E s \in ValidatedDates, e \in ValidatedDates :
        GetMessagesWithMultipleUserMentions(s, e, <<"U1">>)
  \/ \E f \in ValidatedFilters : GetFilteredMessages(f)
  \/ \E f \in ValidatedFilters : GetFilteredMessagesGrouped(f)

SpecValidation == Init /\ [][NextValidation]_vars

(***************************************************************************)
(* Properties of the grouping result                                       *)
(***************************************************************************)
\* the last call was getFilteredMessagesGrouped and it returned a result
Grouped == out.op = "getFilteredMessagesGrouped" /\ out.error = ""

Ids(s) == {s[i].id : i \in 1..Len(s)}

\* the number of places of a grouping result that hold the message with this id
Places(g, id) ==
  Cardinality({i \in 1..Len(g.threads) : g.threads[i].parentMessage.id = id})
  + Cardinality({p \in {<<i, j>> : i \in 1..Len(g.threads), j \in 1..MaxSaves + 1} :
                   /\ p[2] <= Len(g.threads[p[1]].replies)
                   /\ g.threads[p[1]].replies[p[2]].id = id})
  + Cardinality({i \in 1..Len(g.standaloneMessages) : g.standaloneMessages[i].id = id})

\* the ids of all messages of a grouping result
OutputIds(g) ==
  {g.threads[i].parentMessage.id : i \in 1..Len(g.threads)}
    \cup UNION {Ids(g.threads[i].replies) : i \in 1..Len(g.threads)}
    \cup Ids(g.standaloneMessages)

\* all messages of a grouping result
OutputMessages(g) ==
  {g.threads[i].parentMessage : i \in 1..Len(g.threads)}
    \cup UNION {Range(g.threads[i].replies) : i \in 1..Len(g.threads)}
    \cup Range(g.standaloneMessages)

Ascending(s) ==
  \A i \in 1..Len(s) - 1 : DateParse(s[i].created_at) <= DateParse(s[i + 1].created_at)

\* the parent of the thread is a promoted reply of the input
SyntheticParent(thread, input) ==
  \E i \in 1..Len(input) :
     input[i].id = thread.parentMessage.id /\ input[i].thread_id # NoThread

\* C1: every message handed to groupMessagesByThreads is in exactly one place of the
\* result (a thread's parent, a reply or a standalone message) and the result holds
\* no other message
C1_EveryInputExactlyOnce ==
  Grouped =>
    /\ \A id \in Ids(out.input) : Places(out.grouped, id) = 1
    /\ OutputIds(out.grouped) \subseteq Ids(out.input)

\* C2: totalMessageCount is the sum of the threads' messageCount plus the number of
\* standalone messages, and it is the number of distinct messages that were grouped
C2_TotalIsInputSize ==
  Grouped =>
    /\ out.grouped.totalMessageCount =
         SumMessageCount(out.grouped.threads) + Len(out.grouped.standaloneMessages)
    /\ out.grouped.totalMessageCount = Cardinality(Ids(out.input))

\* the input is one message without thread link and N >= 1 replies to its ts
ParentWithReplies(input) ==
  /\ Len(input) >= 2
  /\ \E i \in 1..Len(input) :
       /\ input[i].thread_id = NoThread
       /\ \A j \in (1..Len(input)) \ {i} : input[j].thread_id = input[i].ts

\* C3: a parent P and N >= 1 replies with thread_id = P.ts group into exactly one
\* thread with parentMessage P, the N replies in ascending created_at order,
\* messageCount N + 1, and no standalone message
C3_ThreadReconstruction ==
  (Grouped /\ ParentWithReplies(out.input)) =>
    LET g == out.grouped
        P == CHOOSE m \in Range(out.input) : m.thread_id = NoThread
    IN /\ Len(g.threads) = 1
       /\ g.threads[1].parentMessage = P
       /\ Len(g.threads[1].replies) = Len(out.input) - 1
       /\ Range(g.threads[1].replies) = Range(out.input) \ {P}
       /\ Ascending(g.threads[1].replies)
       /\ g.threads[1].messageCount = Len(out.input)
       /\ g.standaloneMessages = <<>>

\* witness of C3: a parent with two replies of different created_at was grouped
C3_Witness ==
  /\ Grouped
  /\ ParentWithReplies(out.input)
  /\ Len(out.input) = 3
  /\ Len(out.grouped.threads) = 1
  /\ Len(out.grouped.threads[1].replies) = 2
  /\ out.grouped.threads[1].replies[1].created_at # out.grouped.threads[1].replies[2].created_at

\* the input is N >= 1 replies of one thread whose starter is not in the input
OrphanedReplies(input) ==
  /\ Len(input) >= 1
  /\ input[1].thread_id # NoThread
  /\ \A i \in 1..Len(input) : input[i].thread_id = input[1].thread_id
  /\ \A i \in 1..Len(input) : input[i].ts # input[1].thread_id

\* C4: N >= 1 replies of one thread without its starter group into exactly one
\* thread: the parent is the chronologically first reply with thread_id cleared, the
\* replies are the other N - 1 in chronological order, messageCount is N, and there
\* is no standalone message
C4_OrphanPromotion ==
  (Grouped /\ OrphanedReplies(out.input)) =>
    LET g == out.grouped
        t == g.threads[1]
    IN /\ Len(g.threads) = 1
       /\ \E m \in Range(out.input) :
            /\ t.parentMessage = [m EXCEPT !.thread_id = NoThread]
            /\ \A o \in Range(out.input) : DateParse(m.created_at) <= DateParse(o.created_at)
            /\ Range(t.replies) = Range(out.input) \ {m}
       /\ Len(t.replies) = Len(out.input) - 1
       /\ Ascending(t.replies)
       /\ t.messageCount = Len(out.input)
       /\ g.standaloneMessages = <<>>

\* witness of C4: two orphaned replies of different created_at were grouped
C4_Witness ==
  /\ Grouped
  /\ OrphanedReplies(out.input)
  /\ Len(out.input) = 2
  /\ out.input[1].created_at # out.input[2].created_at
  /\ Len(out.grouped.threads) = 1
  /\ Len(out.grouped.threads[1].replies) = 1

\* witness of C4 for N = 1: a single orphaned reply became a thread without replies
C4_WitnessSingle ==
  /\ Grouped
  /\ OrphanedReplies(out.input)
  /\ Len(out.input) = 1
  /\ Len(out.grouped.threads) = 1

\* C5: a message without thread_id whose ts no message of the input references is a
\* standalone message and never the parent of a thread, and every thread without
\* replies has a promoted reply as its parent
C5_LoneParentIsStandalone ==
  Grouped =>
    LET g == out.grouped
    IN /\ \A m \in Range(out.input) :
            (m.thread_id = NoThread /\ ~(\E o \in Range(out.input) : o.thread_id = m.ts)) =>
               /\ m \in Range(g.standaloneMessages)
               /\ \A i \in 1..Len(g.threads) : g.threads[i].parentMessage.id # m.id
       /\ \A i \in 1..Len(g.threads) :
            Len(g.threads[i].replies) = 0 => SyntheticParent(g.threads[i], out.input)

\* witness of C5: a result with a standalone message and a thread without replies
C5_Witness ==
  /\ Grouped
  /\ Len(out.grouped.standaloneMessages) >= 1
  /\ \E i \in 1..Len(out.grouped.threads) : Len(out.grouped.threads[i].replies) = 0

\* the thread of a grouping result that holds the message with this id
ThreadsHolding(g, id) ==
  {i \in 1..Len(g.threads) :
     g.threads[i].parentMessage.id = id \/ id \in Ids(g.threads[i].replies)}

\* the stored thread starters of a reply: same channel, ts = the reply's thread_id
StoredParents(rows, reply) ==
  {p \in rows : /\ p.channel_id = reply.channel_id
                 /\ p.ts = reply.thread_id
                 /\ p.id # reply.id}

OutsideWindow(row, filter) ==
  \/ DateParse(row.created_at) < filter.startDate
  \/ DateParse(row.created_at) > filter.endDate

\* C6: with includeThreads every message of the result lies in [startDate, endDate];
\* a returned reply whose stored parent lies outside the window is in a thread with a
\* promoted reply as parent, and that stored parent is not in the result
C6_WindowBoundedExpansion ==
  (Grouped /\ out.filter.includeThreads) =>
    LET g == out.grouped
    IN /\ \A m \in OutputMessages(g) : ~OutsideWindow(m, out.filter)
       /\ \A r \in db :
            (r.thread_id # NoThread /\ r.id \in OutputIds(g)) =>
               \A p \in StoredParents(db, r) :
                  OutsideWindow(p, out.filter) =>
                     /\ p.id \notin OutputIds(g)
                     /\ ThreadsHolding(g, r.id) # {}
                     /\ \A i \in ThreadsHolding(g, r.id) : SyntheticParent(g.threads[i], out.input)

\* witness of C6: includeThreads returned a reply whose stored parent is outside the window
C6_Witness ==
  /\ Grouped
  /\ out.filter.includeThreads
  /\ \E r \in db :
       /\ r.thread_id # NoThread
       /\ r.id \in OutputIds(out.grouped)
       /\ \E p \in StoredParents(db, r) : p.thread_id = NoThread /\ OutsideWindow(p, out.filter)

\* the parent of the thread is a message of the input that has no thread_id
RealParent(thread, input) ==
  \E i \in 1..Len(input) :
     input[i].id = thread.parentMessage.id /\ input[i].thread_id = NoThread

\* C7: in every thread with a real parent each reply is of the parent's channel
C7_RepliesInParentChannel ==
  Grouped =>
    \A i \in 1..Len(out.grouped.threads) :
       LET t == out.grouped.threads[i]
       IN RealParent(t, out.input) =>
            \A j \in 1..Len(t.replies) : t.replies[j].channel_id = t.parentMessage.channel_id

\* C8: messageCount of every thread is 1 + replies.length
C8_MessageCount ==
  Grouped =>
    \A i \in 1..Len(out.grouped.threads) :
       out.grouped.threads[i].messageCount = 1 + Len(out.grouped.threads[i].replies)

\* witness of C8: a result with a thread under its real parent and a thread under a
\* promoted reply
C8_Witness ==
  /\ Grouped
  /\ \E i \in 1..Len(out.grouped.threads) : RealParent(out.grouped.threads[i], out.input)
  /\ \E i \in 1..Len(out.grouped.threads) : SyntheticParent(out.grouped.threads[i], out.input)

\* C9: the replies of every thread and the standalone messages are in ascending
\* created_at order, whatever the order of the input
C9_AscendingOrder ==
  Grouped =>
    /\ Ascending(out.grouped.standaloneMessages)
    /\ \A i \in 1..Len(out.grouped.threads) : Ascending(out.grouped.threads[i].replies)

\* witness of C9: an input that was not in ascending order gave a thread with two replies
C9_Witness ==
  /\ Grouped
  /\ ~Ascending(out.input)
  /\ \E i \in 1..Len(out.grouped.threads) :
       /\ Len(out.grouped.threads[i].replies) >= 2
       /\ out.grouped.threads[i].replies[1].created_at # out.grouped.threads[i].replies[2].created_at

\* C23: for every thread of a grouping result, threadId is the ts of the thread's
\* parentMessage, also when the parent is a promoted orphan reply
C23_ThreadIdIsParentTs ==
  Grouped =>
    \A i \in 1..Len(out.grouped.threads) :
       out.grouped.threads[i].threadId = out.grouped.threads[i].parentMessage.ts

\* the last call rendered the result of getFilteredMessagesGrouped
Rendered == out.op = "groupedMessagesToMarkdown"

\* C30: groupedMessagesToMarkdown labels a thread whose parent is a promoted orphan
\* reply 'Thread (original starter not in results)' and a thread whose parent is the
\* real thread starter 'Thread Starter'
C30_ThreadLabels ==
  Rendered =>
    /\ Len(out.markdown.threads) = Len(out.grouped.threads)
    /\ \A i \in 1..Len(out.grouped.threads) :
         out.markdown.threads[i].label =
           IF SyntheticParent(out.grouped.threads[i], out.input)
           THEN "Thread (original starter not in results)"
           ELSE "Thread Starter"

\* C24: when groupMessagesByThreads returns, its input array holds the same messages
\* in the same order and every input message has the field values it had; the
\* parent of a thread without its starter is a new object, and the promoted reply of
\* the input still has its thread_id
C24_InputUnchanged ==
  Grouped =>
    /\ out.memory.messages = [i \in 1..Len(out.input) |-> out.input[i].id]
    /\ \A i \in 1..Len(out.input) : out.memory.objs[out.input[i].id] = out.input[i]
    /\ Len(out.memory.parents) = Len(out.grouped.threads)
    /\ \A i \in 1..Len(out.grouped.threads) :
         /\ out.memory.objs[out.memory.parents[i]] = out.grouped.threads[i].parentMessage
         /\ SyntheticParent(out.grouped.threads[i], out.input) =>
              /\ out.memory.parents[i] \notin Ids(out.input)
              /\ out.memory.objs[out.grouped.threads[i].parentMessage.id].thread_id # NoThread

\* witness of C24: an input that was not in created_at order was grouped, and one of
\* the threads has a promoted reply as parent
C24_Witness ==
  /\ Grouped
  /\ ~Ascending(out.input)
  /\ \E i \in 1..Len(out.grouped.threads) : SyntheticParent(out.grouped.threads[i], out.input)

(***************************************************************************)
(* Properties of the store queries                                         *)
(***************************************************************************)
\* the last call was getMessagesInTimeRange and it returned a result
RangeQueried == out.op = "getMessagesInTimeRange" /\ out.error = ""

\* C10: getMessagesInTimeRange(s, e) returns exactly the stored messages with
\* s <= created_at <= e, each once, in ascending created_at order
C10_RangeFidelity ==
  RangeQueried =>
    /\ Range(out.messages) =
         {r \in db : /\ out.filter.startDate <= DateParse(r.created_at)
                      /\ DateParse(r.created_at) <= out.filter.endDate}
    /\ Len(out.messages) = Cardinality(Range(out.messages))
    /\ Ascending(out.messages)

\* witness of C10: a range query returned a message created at its start, one created
\* at its end, and left a stored message out
C10_Witness ==
  /\ RangeQueried
  /\ \E i \in 1..Len(out.messages) : DateParse(out.messages[i].created_at) = out.filter.startDate
  /\ \E i \in 1..Len(out.messages) : DateParse(out.messages[i].created_at) = out.filter.endDate
  /\ Range(out.messages) # db

\* the last call was getThreadMessages
ThreadQueried == out.op = "getThreadMessages"

\* C12: getThreadMessages(parentTs) returns exactly the stored messages with
\* thread_id = parentTs and the stored message with ts = parentTs and no thread_id,
\* each once, whatever their dates, in ascending created_at order; for a stored
\* parent with N replies these are N + 1 messages
C12_ThreadMessages ==
  ThreadQueried =>
    LET replies == {r \in db : r.thread_id = out.parentTs}
        parents == {r \in db : r.ts = out.parentTs /\ r.thread_id = NoThread}
    IN /\ Range(out.messages) = replies \cup parents
       /\ Len(out.messages) = Cardinality(Range(out.messages))
       /\ Ascending(out.messages)
       /\ parents # {} => Len(out.messages) = Cardinality(replies) + 1

\* the last call was getMessagesFromUsers with references and it returned a result
SenderQueried ==
  /\ out.op = "getMessagesFromUsers"
  /\ out.error = ""
  /\ Len(out.filter.userContainings) > 0

\* a reference matches a message when it is the sender's user_id or, without an
\* optional leading "@", the sender's display name
RefMatchesSender(ref, r) ==
  \/ r.user_id = ref
  \/ r.user_name = (IF startsWith(ref, "@") THEN slice1(ref) ELSE ref)

\* C13: getMessagesFromUsers with references returns exactly the in-range messages
\* whose sender matches at least one reference by user_id or by display name,
\* whatever the first letter of the name
C13_SenderMatching ==
  SenderQueried =>
    Range(out.messages) =
      {r \in db : /\ out.filter.startDate <= DateParse(r.created_at)
                   /\ DateParse(r.created_at) <= out.filter.endDate
                   /\ \E i \in 1..Len(out.filter.userContainings) :
                        RefMatchesSender(out.filter.userContainings[i], r)}

\* the rows hold the same message of the platform
SameMessage(r, q) == r.channel_id = q.channel_id /\ r.ts = q.ts

\* C19: whatever saveMessages is called with, the store holds at most one row per
\* (channel_id, ts), and a row that was persisted keeps its id when a message with
\* its (channel_id, ts) is saved again
C19_StableIds ==
  [][/\ \A q1 \in db', q2 \in db' : SameMessage(q1, q2) => q1 = q2
     /\ \A r \in db, q \in db' : SameMessage(r, q) => r.id = q.id]_vars

\* the last call was getFilteredMessages and it returned a result
Filtered == out.op = "getFilteredMessages" /\ out.error = ""

\* the timestamp of the starter of the message's thread: thread_id of a reply, ts of
\* a message without thread link
ThreadTsOf(r) == IF r.thread_id # NoThread THEN r.thread_id ELSE r.ts

\* both messages are of one thread: same channel, same starter
SameThread(r, q) == r.channel_id = q.channel_id /\ ThreadTsOf(r) = ThreadTsOf(q)

\* the number of positions of the sequence that hold the message with this id
Occurrences(messages, id) == Cardinality({i \in 1..Len(messages) : messages[i].id = id})

\* C27: with includeThreads, if a message of a thread is in the result of
\* getFilteredMessages then every stored message of that thread whose created_at is
\* in [startDate, endDate] is in the result exactly once
C27_ClosedUnderThreads ==
  (Filtered /\ out.filter.includeThreads) =>
    \A i \in 1..Len(out.messages) :
       \A r \in db :
          (SameThread(r, out.messages[i]) /\ ~OutsideWindow(r, out.filter)) =>
             Occurrences(out.messages, r.id) = 1

\* witness of C27: the filter matched a thread starter and not a reply to it, and
\* the reply is in the result
C27_Witness ==
  /\ Filtered
  /\ out.filter.includeThreads
  /\ \E i \in 1..Len(out.messages), j \in 1..Len(out.messages) :
       LET parent == out.messages[i]
           reply == out.messages[j]
       IN /\ parent.thread_id = NoThread
          /\ reply.thread_id = parent.ts
          /\ reply.channel_id = parent.channel_id
          /\ parent.id \in Ids(BaseMessages(db, out.filter))
          /\ reply.id \notin Ids(BaseMessages(db, out.filter))

\* witness of C27: the filter matched a reply and not the starter of its thread, and
\* the starter is in the result
C27_WitnessFromReply ==
  /\ Filtered
  /\ out.filter.includeThreads
  /\ \E i \in 1..Len(out.messages), j \in 1..Len(out.messages) :
       LET parent == out.messages[i]
           reply == out.messages[j]
       IN /\ parent.thread_id = NoThread
          /\ reply.thread_id = parent.ts
          /\ reply.channel_id = parent.channel_id
          /\ reply.id \in Ids(BaseMessages(db, out.filter))
          /\ parent.id \notin Ids(BaseMessages(db, out.filter))

\* the last call was one of the two retrievals and it returned a result
Retrieved == Filtered \/ Grouped

\* the ids of the messages the last retrieval selected: those it returned, or those
\* it handed to the grouping step
RetrievedIds == IF Grouped THEN Ids(out.input) ELSE Ids(out.messages)

\* the stored messages inside the window of the filter
StoredInWindow(filter) == {r \in db : ~OutsideWindow(r, filter)}

\* the stored messages that mention a user of the list
Mentioning(rows, userMentions) ==
  {r \in rows : \E i \in 1..Len(userMentions) : userMentions[i] \in r.mentions}

\* the stored messages sent by a user of the list
SentBy(rows, userContainings) ==
  {r \in rows : \E i \in 1..Len(userContainings) : RefMatchesSender(userContainings[i], r)}

\* the base messages a filter selects: by mention when userMentions is not empty,
\* else by sender when userContainings is not empty, else the whole window
SelectedBy(filter) ==
  IF filter.userMentions # <<>> THEN Mentioning(StoredInWindow(filter), filter.userMentions)
  ELSE IF filter.userContainings # <<>> THEN SentBy(StoredInWindow(filter), filter.userContainings)
  ELSE StoredInWindow(filter)

\* C28: the base messages of getFilteredMessages and getFilteredMessagesGrouped are
\* selected by the mention filter alone when userMentions is not empty (the sender
\* filter then has no effect), by the sender filter only when userMentions is empty,
\* and by the plain range only when both are empty
C28_MentionFilterWins ==
  Retrieved =>
    /\ ~out.filter.includeThreads => RetrievedIds = {r.id : r \in SelectedBy(out.filter)}
    /\ {r.id : r \in SelectedBy(out.filter)} \subseteq RetrievedIds
    /\ (out.filter.userMentions # <<>> /\ Filtered) =>
         out.messages = getFilteredMessages(db, [out.filter EXCEPT !.userContainings = <<>>])
    /\ (out.filter.userMentions # <<>> /\ Grouped) =>
         out.grouped = getFilteredMessagesGrouped(db, [out.filter EXCEPT !.userContainings = <<>>])

\* witness of C28: a filter with both lists returned a message that mentions the
\* user and was sent by nobody of the sender list
C28_Witness ==
  /\ Filtered
  /\ ~out.filter.includeThreads
  /\ out.filter.userMentions # <<>>
  /\ out.filter.userContainings # <<>>
  /\ \E i \in 1..Len(out.messages) :
       /\ out.messages[i] \in Mentioning(db, out.filter.userMentions)
       /\ out.messages[i] \notin SentBy(db, out.filter.userContainings)

\* witness of C28: the same for getFilteredMessagesGrouped
C28_WitnessGrouped ==
  /\ Grouped
  /\ ~out.filter.includeThreads
  /\ out.filter.userMentions # <<>>
  /\ out.filter.userContainings # <<>>
  /\ \E m \in OutputMessages(out.grouped) :
       /\ m \in Mentioning(db, out.filter.userMentions)
       /\ m \notin SentBy(db, out.filter.userContainings)

\* witness of C28: with no mentioned user the sender filter left a stored message out
C28_WitnessSender ==
  /\ Filtered
  /\ ~out.filter.includeThreads
  /\ out.filter.userMentions = <<>>
  /\ out.filter.userContainings # <<>>
  /\ out.messages # <<>>
  /\ Ids(out.messages) # {r.id : r \in StoredInWindow(out.filter)}

\* C29: the ids of the messages of the result of getFilteredMessagesGrouped (every
\* thread's parent and replies, and the standalone messages) are the ids of the
\* messages getFilteredMessages returns for the same filter
C29_GroupedFlattensToFiltered ==
  Grouped => OutputIds(out.grouped) = Ids(getFilteredMessages(db, out.filter))

(***************************************************************************)
(* Properties of the range validation                                      *)
(***************************************************************************)
\* the operations that validate their date range
ValidatingOps == {"getMessagesInTimeRange", "getMessagesFromUsers",
                  "getMessagesWithMultipleUserMentions", "getFilteredMessages",
                  "getFilteredMessagesGrouped"}

\* the error the claim expects for a range: the start is looked at first
ExpectedRangeError(s, e) ==
  CASE s = InvalidDate -> "Invalid start date"
    [] s # InvalidDate /\ e = InvalidDate -> "Invalid end date"
    [] s # InvalidDate /\ e # InvalidDate /\ s > e ->
         "Start date must be before or equal to end date"
    [] OTHER -> ""

\* C11: each of the five validating operations, called with an invalid start, an
\* invalid end or start > end, throws the error naming the bound (start first)
\* without having run a store query and returns nothing; a valid range, start = end
\* included, is accepted and the store is queried
C11_RangeValidatedFirst ==
  out.op \in ValidatingOps =>
    /\ out.error = ExpectedRangeError(out.filter.startDate, out.filter.endDate)
    /\ out.error # "" => /\ out.queries = 0
                         /\ out.messages = <<>>
                         /\ out.grouped = NoGrouped
    /\ out.error = "" => out.queries >= 1
    /\ (out.filter.startDate # InvalidDate /\ out.filter.startDate = out.filter.endDate)
         => out.error = ""

\* witness of C11: a call with both bounds invalid was rejected for its start date
\* on a store that holds messages
C11_Witness ==
  /\ out.op \in ValidatingOps
  /\ out.filter.startDate = InvalidDate
  /\ out.filter.endDate = InvalidDate
  /\ out.error = "Invalid start date"
  /\ db # {}

\* witness of C11: a range with start = end was accepted and returned a message
C11_WitnessSameInstant ==
  /\ out.op = "getFilteredMessagesGrouped"
  /\ out.filter.startDate = out.filter.endDate
  /\ out.error = ""
  /\ out.grouped.totalMessageCount >= 1

(***************************************************************************)
(* Properties of the reference validation                                  *)
(***************************************************************************)
\* the last call was validateUserMention
MentionValidated == result.op = "validateUserMention"

\* a string without the white space around it
Stripped(s) ==
  LET inked == {i \in 1..Len(s) : s[i] # " "}
  IN IF inked = {} THEN <<>>
     ELSE SubSeq(s, CHOOSE i \in inked : \A j \in inked : i <= j,
                    CHOOSE i \in inked : \A j \in inked : i >= j)

\* an ID: a sigil (U, W or S) and then one or more ASCII letters, digits or underscores
IsPlatformId(s) ==
  /\ Len(s) >= 2
  /\ Head(s) \in {"U", "W", "S"}
  /\ Range(Tail(s)) \subseteq {"U", "W", "S", "a", "1", "_"}

\* <@ID>
IsBracketedId(s) ==
  /\ Len(s) >= 3
  /\ SubSeq(s, 1, 2) = <<"<", "@">>
  /\ s[Len(s)] = ">"
  /\ IsPlatformId(SubSeq(s, 3, Len(s) - 1))

\* a name of letters of any script, digits, dot, hyphen and underscore, with or
\* without "@" in front
IsName(s) ==
  LET name == IF Len(s) >= 1 /\ s[1] = "@" THEN Tail(s) ELSE s
  IN /\ name # <<>>
     /\ Range(name) \subseteq {"U", "W", "S", "a", "e_acute", "1", ".", "-", "_"}

\* the error text lists the expected formats
ListsFormats(error) ==
  /\ error # <<>>
  /\ error[Len(error)] = ". Expected formats: @username, username, <@U123456>, or U123456"

\* C14: validateUserMention(ref) reports valid exactly when the trimmed ref is not
\* empty and is <@ID>, a bare ID or a name with or without "@"; an empty or
\* white-space reference is invalid with "User mention cannot be empty", every other
\* malformed one is invalid with an error that lists the expected formats
C14_MentionValidity ==
  MentionValidated =>
    LET t == Stripped(argv[1])
        wellFormed == t # <<>> /\ (IsBracketedId(t) \/ IsPlatformId(t) \/ IsName(t))
    IN /\ result.isValid <=> wellFormed
       /\ result.isValid => result.error = <<>>
       /\ t = <<>> => result.error = <<"User mention cannot be empty">>
       /\ (t # <<>> /\ ~wellFormed) => ListsFormats(result.error)

\* witness of C14: a bracketed ID with white space around it was reported valid
C14_Witness ==
  /\ MentionValidated
  /\ Len(argv[1]) > Len(Stripped(argv[1]))
  /\ IsBracketedId(Stripped(argv[1]))
  /\ result.isValid

\* witness of C14: a name with a letter outside ASCII was reported valid
C14_WitnessAnyScript ==
  /\ MentionValidated
  /\ "e_acute" \in Range(argv[1])
  /\ result.isValid

\* witness of C14: a reference of white space only and a malformed one were rejected
C14_WitnessBlank ==
  /\ MentionValidated
  /\ argv[1] = <<" ", " ">>
  /\ ~result.isValid

C14_WitnessMalformed ==
  /\ MentionValidated
  /\ argv[1] = <<"<", "@", "a", "1", ">">>
  /\ ListsFormats(result.error)

\* the last call was parseCommandArgs with two dates and at least one reference
RefsParsed == result.op = "parseCommandArgs" /\ Len(argv) > 2

\* a reference the validation accepts, in the words of C14
WellFormedRef(ref) ==
  LET t == Stripped(ref)
  IN t # <<>> /\ (IsBracketedId(t) \/ IsPlatformId(t) \/ IsName(t))

C15_WitnessAllValid ==
  /\ RefsParsed
  /\ result.returned
  /\ Len(result.value.userMentions) = 2
  /\ result.value.userMentions[1] # result.value.userMentions[2]

(***************************************************************************)
(* Properties of withRetry                                                 *)
(***************************************************************************)
\* every attempt of the current withRetry call that has settled failed
AllFailed == \A i \in 1..Len(retry.settled) : retry.settled[i] = "err"

\* C16: with maxRetries = n >= 1 and an operation that fails on every attempt,
\* withRetry invokes the operation exactly n times, then rejects with a RetryError
\* whose attempts is n and whose lastError is the error of the n-th attempt
C16_ExhaustedRetries ==
  (retry.pc # "none" /\ retry.options.maxRetries >= 1) =>
    /\ (AllFailed /\ Len(retry.settled) = retry.options.maxRetries) =>
         /\ retry.pc = "rejected"
         /\ retry.calls = retry.options.maxRetries
    /\ retry.pc = "rejected" =>
         /\ AllFailed
         /\ retry.calls = retry.options.maxRetries
         /\ retry.error = [name |-> "RetryError", attempts |-> retry.options.maxRetries,
                           lastError |-> retry.options.maxRetries]

\* witness of C16: three failed attempts out of three ended in the rejection
C16_Witness ==
  /\ retry.pc = "rejected"
  /\ retry.options.maxRetries = 3
  /\ retry.settled = <<"err", "err", "err">>
  /\ retry.error.name = "RetryError"

\* C17: when the operation first succeeds on attempt k <= maxRetries, withRetry
\* returns the result of that attempt after exactly k invocations and invokes the
\* operation no more; every call of the wrapped function starts with a full budget
C17_StopsAtFirstSuccess ==
  retry.pc # "none" =>
    /\ (\E k \in 1..Len(retry.settled) : retry.settled[k] = "ok") =>
         /\ retry.pc = "resolved"
         /\ retry.settled[Len(retry.settled)] = "ok"
         /\ \A i \in 1..Len(retry.settled) - 1 : retry.settled[i] = "err"
         /\ retry.calls = Len(retry.settled)
         /\ retry.value = Len(retry.settled)
         /\ retry.calls <= retry.options.maxRetries
    /\ retry.pc = "resolved" => retry.settled # <<>> /\ retry.settled[Len(retry.settled)] = "ok"
    /\ retry.pc = "pending" => retry.calls = Len(retry.settled) + 1 /\ retry.calls = retry.attempt
    /\ (retry.pc = "rejected" /\ retry.options.maxRetries >= 1) =>
         retry.calls = retry.options.maxRetries

\* witness of C17: the second call of the wrapped function succeeded on its third
\* attempt after the first call had used attempts of its own
C17_Witness ==
  /\ retry.pc = "resolved"
  /\ retry.run = 2
  /\ retry.settled = <<"err", "err", "ok">>
  /\ retry.calls = 3
  /\ retry.total > 3

\* witness of C17 for k = 1: the first attempt succeeded
C17_WitnessFirst ==
  /\ retry.pc = "resolved"
  /\ retry.calls = 1

\* the waits of the current withRetry call are those of the backoff: the first is
\* the initial delay, each later one the wait before it times backoffMultiplier,
\* limited to maxDelay
BackoffWaits ==
  \A i \in 1..Len(retry.waits) :
     retry.waits[i] =
       IF i = 1 THEN retry.options.delay
       ELSE Min(TimesMultiplier(retry.waits[i - 1], retry.options.backoffMultiplier),
                retry.options.maxDelay)

\* C25: every wait between two attempts is at most maxDelay; the first wait is the
\* initial delay, each later wait the previous one times backoffMultiplier limited
\* to maxDelay; there is one wait per failed attempt but the last, none after it
C25_WaitsAreCapped ==
  retry.pc # "none" =>
    /\ \A i \in 1..Len(retry.waits) : retry.waits[i] <= retry.options.maxDelay
    /\ BackoffWaits
    /\ retry.pc = "waiting" => Len(retry.waits) = Len(retry.settled)
    /\ retry.pc = "pending" => Len(retry.waits) = Len(retry.settled)
    /\ (retry.pc = "rejected" /\ retry.settled # <<>>) =>
         Len(retry.waits) = Len(retry.settled) - 1

\* C26: whatever maxRetries is, also 0 or negative, a withRetry call that has ended
\* invoked the operation at least once, and one that was rejected was rejected with
\* a RetryError
C26_AtLeastOneAttempt ==
  retry.pc \in {"resolved", "rejected"} =>
    /\ retry.calls >= 1
    /\ retry.pc = "rejected" => retry.error.name = "RetryError"

(***************************************************************************)
(* Properties of the HTTP server                                           *)
(***************************************************************************)
\* the server answered a GET request
Answered == http.response # NoResponse /\ http.method = "GET"

\* the string writes an integer: decimal digits after an optional sign
IsInteger(id) ==
  LET digits == IF id # <<>> /\ Head(id) \in {"+", "-"} THEN Tail(id) ELSE id
  IN digits # <<>> /\ \A i \in 1..Len(digits) : digits[i] \in DigitChars

\* C22: a GET of /api/documents/<id> is answered 400 'Invalid document ID' whenever
\* <id> is not an integer document id, and a GET of /api/documents/search is handled
\* by the search handler (400 'Search query is required' when q is empty), never as
\* the document with id 'search'
C22_InvalidDocumentId ==
  Answered =>
    /\ (/\ Len(http.pathname) = 3
        /\ StartsWithDocuments(http.pathname)
        /\ http.pathname[3] # Search
        /\ ~IsInteger(http.pathname[3])) =>
         http.response.status = 400 /\ http.response.error = "Invalid document ID"
    /\ http.pathname = <<Api, Documents, Search>> =>
         /\ http.response.handler = "handleSearchDocuments"
         /\ http.q = <<>> =>
              http.response.status = 400 /\ http.response.error = "Search query is required"

(***************************************************************************)
(* Properties of fetchChannelMessages                                      *)
(***************************************************************************)
\* this step sends a history request
SendsRequest == fetcher'.requests = fetcher.requests + 1

\* the call is suspended after a page, or before the first one
AtLoopHead == fetcher.pc \in {"info", "batchDelay"}

\* C21: the history requests are sent one at a time. A request after the first is
\* sent only when the page before it was answered ok with a next cursor, all its
\* messages were processed and the wait after the batch, counted from the end of
\* that processing, is over; no two requests are outstanding; and after a response
\* the next request is sent exactly when the response was ok and carried a next
\* cursor
C21_OnePageAtATime ==
  [][/\ fetcher'.outstanding <= 1
     /\ SendsRequest =>
          /\ fetcher.outstanding = 0
          /\ AtLoopHead
          /\ fetcher.requests > 0 =>
               /\ fetcher.threads = 0
               /\ fetcher'.clock >= fetcher.processedAt + BatchDelay
               /\ fetcher.response.ok
               /\ fetcher.response.next_cursor = "next"
     /\ fetcher.pc = "history" /\ fetcher'.pc # "rejected" /\ ~fetcher'.response.ok =>
          fetcher'.pc = "returned"
     /\ fetcher.pc = "batchDelay" =>
          /\ SendsRequest <=> fetcher.response.next_cursor = "next"
          /\ ~SendsRequest => fetcher'.pc = "returned"]_vars

\* a second page was requested, after a page with replies was processed
C21_Witness ==
  fetcher.pc = "history" /\ fetcher.requests = 2 /\ fetcher.replies > 0

\* the call returned because the last page carried an empty cursor
C21_WitnessStops ==
  fetcher.pc = "returned" /\ fetcher.response.ok /\ fetcher.response.next_cursor = ""
    /\ fetcher.pages = 2

(***************************************************************************)
(* Properties of migrateDatabase                                           *)
(***************************************************************************)
\* the last call of migrateDatabase threw
MigrationFailed == migration.op = "migrateDatabase" /\ migration.error # ""

\* C18: when a step of the migration fails, migrateDatabase throws that step's
\* error, nothing is committed and the database holds the tables and rows it held
\* before the call; COMMIT is executed only when every step succeeded
C18_MigrationIsAtomic ==
  migration.op = "migrateDatabase" =>
    /\ migration.error # "" => /\ sqlite = migration.before
                               /\ ~migration.committed
    /\ migration.committed <=> migration.error = ""
    /\ (migration.failAt \in 1..migration.steps) => migration.error = IOError

\* witness of C18: the migration failed after it had inserted groups into users and
\* the database holds its groups table and its old users again
C18_Witness ==
  /\ MigrationFailed
  /\ migration.steps >= 6
  /\ "groups" \in sqlite.tables
  /\ sqlite.groups # {}
  /\ \E u \in sqlite.users : u.user_id = "S1" /\ u.user_name = "old"

\* witness of C18: a migration failed on the schema (a missing table), not on an
\* outside error
C18_WitnessSchema ==
  /\ MigrationFailed
  /\ migration.error = "no such table: message_document_relations"
  /\ "topics" \notin sqlite.tables

\* witness of C18: a migration of both parts was committed
C18_WitnessCommitted ==
  /\ migration.op = "migrateDatabase"
  /\ migration.committed
  /\ "groups" \in migration.before.tables
  /\ "documents" \in migration.before.tables
  /\ sqlite.topics # {}
  /\ \E u \in sqlite.users : u.user_type = "group"

====
